---- MODULE Spec2Model ----
(***************************************************************************)
(* Model of the on-demand instance allocator of wasmtime                   *)
(* (crates/runtime/src/instance/allocator.rs): segment initialization      *)
(* (initialize) and instance allocation (allocate).                        *)
(*                                                                         *)
(* Integer widths are scaled: a u32 has W32 bits and a u64 has 2*W32 bits, *)
(* a Wasm page has WASM_PAGE_SIZE bytes.  Every comparison, checked        *)
(* addition and truncation is made at the scaled width exactly where the   *)
(* code makes it at the real width.                                        *)
(***************************************************************************)
EXTENDS Integers, Sequences, FiniteSets, TLC

\* ------------------------------------------------------------------------
\* Bounds of the model
\* ------------------------------------------------------------------------
W32 == 3
WASM_PAGE_SIZE == 2
MemPages == 2
TableSize == 2
MaxDataSegs == 2
MaxElemSegs == 1
MaxDefMems == 2
MaxDefTabs == 2
MaxTypes == 2
MaxFuncs == 2
MaxDefGlobals == 2

U32_MAX == 2^W32 - 1
U64_MAX == 2^(2 * W32) - 1
U128_MAX == 2^(4 * W32) - 1

\* ------------------------------------------------------------------------
\* Small helpers
\* ------------------------------------------------------------------------
NoneIdx == [some |-> FALSE, idx |-> 0]
SomeIdx(i) == [some |-> TRUE, idx |-> i]

SeqsUpTo(S, n) == UNION {[1..k -> S] : k \in 0..n}

Zeros(n) == [i \in 1..n |-> 0]

\* Result<(), InstantiationError>
Ok == [tag |-> "Ok", msg |-> ""]
Link(m) == [tag |-> "Link", msg |-> m]
Trap(c) == [tag |-> "Trap", msg |-> c]
Resource == [tag |-> "Resource", msg |-> ""]
Panic == [tag |-> "Panic", msg |-> ""]
NotCalled == [tag |-> "NotCalled", msg |-> ""]

\* Result<u32 / u64, InstantiationError>
OkVal(v) == [err |-> Ok, val |-> v]
ErrVal(e) == [err |-> e, val |-> 0]

\* VMGlobalDefinition accessors: the storage read at the width asked for.
as_u32(bits) == bits % (U32_MAX + 1)
as_u64(bits) == bits % (U64_MAX + 1)

VARIABLES
    module,          \* the Module being instantiated (read-only)
    instance,        \* the Instance: memories, tables, globals, imports
    is_bulk_memory,  \* the flag of the last initialize call
    init_result,     \* what initialize returned
    instance0,       \* the instance as it was when initialize was called
    req,             \* the InstanceAllocationRequest handed to allocate
    alloc_pc,        \* the position of allocate
    alloc_result,    \* what allocate returned
    memories,        \* allocate's local `memories`
    tables,          \* allocate's local `tables`
    created,         \* the Memory::new_dynamic / Table::new_dynamic calls made
    live,            \* the ids of the memories and tables not yet released
    released,        \* the ids released, in release order
    extern_strong    \* the strong count of the externref the imports hold

VARIABLES
    contents,        \* the bytes / elements of every memory and table created
    buffer,          \* the backing bytes of the Instance: state and layout
    dealloc_pc,      \* the position of deallocate
    dealloc_layout,  \* deallocate's local `layout`
    parked,          \* the threads not running: their instance and locals
    sig_in,          \* the arguments of func_signature / indirect_signature
    sig_out,         \* the ir::Signature returned
    chk_in,          \* a stack_limit word, a stack pointer and a frame size
    chk_out,         \* what the prologue and the trap handler make of them
    stack_limits,    \* the stack_limit word of each VMInterrupts
    vmctx_interrupts,\* the first word of the VMContext of each instance
    sp,              \* the stack pointer of the executing thread
    frames,          \* the frame sizes of its active Wasm functions
    cur,             \* the instance whose code it is executing
    thread_pc,       \* "host", "wasm", "trapped" or "reported"
    trap_site,       \* the check that fired: "prologue" or "loop_header"
    trap_cause,      \* the stack_limit word the check that fired had loaded
    trap_inspected,  \* the stack_limit word the trap handler read
    trap_label,      \* what the trap handler reported
    iters,           \* loop iterations made, modulo MaxIters
    passed_checks    \* checks passed since the sentinel was stored

VARIABLES
    allocator,       \* the OnDemandInstanceAllocator: mem_creator, stack_size
    fiber_stacks,    \* the sizes of the FiberStacks created and handed out
    fiber_out        \* the last call of the fiber / validate / tunables
                     \* methods: its number, arguments and result

initVars == <<is_bulk_memory, init_result, instance0>>
allocVars == <<req, alloc_pc, alloc_result, memories, tables, created, live,
               released, extern_strong>>
lifeVars == <<dealloc_pc, dealloc_layout, parked>>
sigVars == <<sig_in, sig_out>>
chkVars == <<chk_in, chk_out>>
intrVars == <<stack_limits, vmctx_interrupts, sp, frames, cur, thread_pc,
              trap_site, trap_cause, trap_inspected, trap_label, iters,
              passed_checks>>
fiberVars == <<allocator, fiber_stacks, fiber_out>>
extVars == <<lifeVars, sigVars, chkVars, intrVars, fiberVars>>
coreVars == <<module, instance, initVars, allocVars, contents, buffer>>
vars == <<module, instance, initVars, allocVars, contents, buffer, extVars>>

\* deallocate is not running and no other thread holds an instance
LifeIdle ==
    /\ dealloc_pc = "idle"
    /\ dealloc_layout = 0
    /\ parked = <<>>

\* no signature is being built
SigIdle ==
    /\ sig_in = [op |-> "none"]
    /\ sig_out = [state |-> "none"]

\* no stack check is being evaluated
ChkIdle ==
    /\ chk_in = [stack_limit |-> 0, sp |-> 0, frame |-> 0]
    /\ chk_out = [state |-> "idle"]

\* no thread is executing Wasm
IntrIdle ==
    /\ stack_limits = <<>>
    /\ vmctx_interrupts = <<>>
    /\ sp = 0
    /\ frames = <<>>
    /\ cur = 0
    /\ thread_pc = "host"
    /\ trap_site = "none"
    /\ trap_cause = 0
    /\ trap_inspected = 0
    /\ trap_label = "none"
    /\ iters = 0
    /\ passed_checks = 0

\* impl Default for OnDemandInstanceAllocator
OnDemandDefault == [mem_creator |-> "none", stack_size |-> 0]

\* the default allocator, on which no fiber method has been called
FiberIdle ==
    /\ allocator = OnDemandDefault
    /\ fiber_stacks = <<>>
    /\ fiber_out = [n |-> 0, op |-> "none"]

ExtIdle == LifeIdle /\ SigIdle /\ ChkIdle /\ IntrIdle /\ FiberIdle

\* ------------------------------------------------------------------------
\* Reading a global, defined or imported
\* ------------------------------------------------------------------------
defined_global_index(m, index) ==
    IF index < m.num_imported_globals
    THEN NoneIdx
    ELSE SomeIdx(index - m.num_imported_globals)

global_storage(inst, base) ==
    LET def_index == defined_global_index(inst.module, base) IN
    IF def_index.some
    THEN inst.globals[def_index.idx + 1]
    ELSE inst.imported_globals[base + 1]

\* ------------------------------------------------------------------------
\* Element segments
\* ------------------------------------------------------------------------
\* get_table_init_start with a wrapping addition in place of checked_add
get_table_init_start_wrapping(init, inst) ==
    IF init.base.some
    THEN OkVal((init.offset + as_u32(global_storage(inst, init.base.idx)))
                  % (U32_MAX + 1))
    ELSE OkVal(init.offset)

get_table_init_start(init, inst) ==
    IF init.base.some
    THEN LET val == as_u32(global_storage(inst, init.base.idx)) IN
         IF init.offset + val > U32_MAX
         THEN ErrVal(Link("element segment global base overflows"))
         ELSE OkVal(init.offset + val)
    ELSE OkVal(init.offset)

RECURSIVE check_table_init_bounds_from(_, _, _)
check_table_init_bounds_from(inst, inits, i) ==
    IF i > Len(inits) THEN Ok
    ELSE LET init == inits[i]
             table == inst.tables[init.table_index + 1]
             start == get_table_init_start(init, inst)
         IN IF start.err # Ok THEN start.err
            ELSE IF start.val + Len(init.elements) <= Len(table)
                 THEN check_table_init_bounds_from(inst, inits, i + 1)
                 ELSE Link("table out of bounds: elements segment does not fit")

check_table_init_bounds(inst, m) ==
    check_table_init_bounds_from(inst, m.table_initializers, 1)

\* Instance::get_caller_checked_anyfunc as a table element: the address of
\* anyfunc entry idx, written idx + 1 so that 0 is the null reference.
anyfunc_ptr(idx) == idx + 1

\* Instance::table_init_segment with src = 0, len = elements.len():
\* Table::init_funcs writes the whole range or traps without writing.
table_init_segment(inst, table_index, elements, dst) ==
    LET table == inst.tables[table_index + 1] IN
    IF dst + Len(elements) > Len(table)
    THEN [res |-> Trap("TableOutOfBounds"), inst |-> inst]
    ELSE [res |-> Ok,
          inst |-> [inst EXCEPT !.tables[table_index + 1] =
                      [k \in 1..Len(table) |->
                          IF k > dst /\ k <= dst + Len(elements)
                          THEN anyfunc_ptr(elements[k - dst])
                          ELSE table[k]]]]

RECURSIVE initialize_tables_from(_, _, _)
initialize_tables_from(inst, inits, i) ==
    IF i > Len(inits) THEN [res |-> Ok, inst |-> inst]
    ELSE LET init == inits[i]
             start == get_table_init_start(init, inst)
         IN IF start.err # Ok THEN [res |-> start.err, inst |-> inst]
            ELSE LET r == table_init_segment(inst, init.table_index,
                                             init.elements, start.val)
                 IN IF r.res # Ok THEN r
                    ELSE initialize_tables_from(r.inst, inits, i + 1)

\* initialize_tables that reports the failed table write as a link error
initialize_tables_as_link(inst, m) ==
    LET r == initialize_tables_from(inst, m.table_initializers, 1) IN
    IF r.res.tag = "Trap"
    THEN [res |-> Link("table out of bounds: elements segment does not fit"),
          inst |-> r.inst]
    ELSE r

initialize_tables(inst, m) ==
    initialize_tables_from(inst, m.table_initializers, 1)

\* ------------------------------------------------------------------------
\* Data segments
\* ------------------------------------------------------------------------
\* get_memory_init_start with the base global left out of the sum
get_memory_init_start_no_base(init, inst) == OkVal(init.offset)

get_memory_init_start(init, inst) ==
    IF init.base.some
    THEN LET mem64 == inst.module.memory_plans[init.memory_index + 1].memory64
             global == global_storage(inst, init.base.idx)
             val == IF mem64 THEN as_u64(global) ELSE as_u32(global)
         IN IF init.offset + val > U64_MAX
            THEN ErrVal(Link("data segment global base overflows"))
            ELSE OkVal(init.offset + val)
    ELSE OkVal(init.offset)

RECURSIVE check_memory_init_bounds_from(_, _, _)
check_memory_init_bounds_from(inst, initializers, i) ==
    IF i > Len(initializers) THEN Ok
    ELSE LET init == initializers[i]
             memory == inst.memories[init.memory_index + 1]
             start == get_memory_init_start(init, inst)
         IN IF start.err # Ok THEN start.err
            ELSE IF start.val + Len(init.data) <= U64_MAX
                    /\ start.val + Len(init.data) <= Len(memory)
                 THEN check_memory_init_bounds_from(inst, initializers, i + 1)
                 ELSE Link("memory out of bounds: data segment does not fit")

check_memory_init_bounds(inst, initializers) ==
    check_memory_init_bounds_from(inst, initializers, 1)

\* Instance::memory_init_segment with src = 0, len = data.len(): both ranges
\* are validated first, then the bytes are copied.
memory_init_segment(inst, memory_index, data, dst) ==
    LET memory == inst.memories[memory_index + 1] IN
    IF dst + Len(data) > Len(memory)
    THEN [res |-> Trap("HeapOutOfBounds"), inst |-> inst]
    ELSE [res |-> Ok,
          inst |-> [inst EXCEPT !.memories[memory_index + 1] =
                      [k \in 1..Len(memory) |->
                          IF k > dst /\ k <= dst + Len(data)
                          THEN data[k - dst]
                          ELSE memory[k]]]]

RECURSIVE initialize_memories_from(_, _, _)
initialize_memories_from(inst, initializers, i) ==
    IF i > Len(initializers) THEN [res |-> Ok, inst |-> inst]
    ELSE LET init == initializers[i]
             start == get_memory_init_start(init, inst)
         IN IF start.err # Ok THEN [res |-> start.err, inst |-> inst]
            ELSE LET r == memory_init_segment(inst, init.memory_index,
                                              init.data, start.val)
                 IN IF r.res # Ok THEN r
                    ELSE initialize_memories_from(r.inst, initializers, i + 1)

\* initialize_memories that walks the initializers from the last to the first
initialize_memories_reversed(inst, initializers) ==
    initialize_memories_from(
        inst,
        [i \in 1..Len(initializers) |-> initializers[Len(initializers) + 1 - i]],
        1)

initialize_memories(inst, initializers) ==
    initialize_memories_from(inst, initializers, 1)

\* ------------------------------------------------------------------------
\* initialize
\* ------------------------------------------------------------------------
\* check_init_bounds that checks the element segments only
check_init_bounds_tables_only(inst, m) == check_table_init_bounds(inst, m)

check_init_bounds(inst, m) ==
    LET t == check_table_init_bounds(inst, m) IN
    IF t # Ok THEN t
    ELSE IF inst.module.memory_initialization.kind = "Paged"
         THEN IF inst.module.memory_initialization.out_of_bounds
              THEN Link("memory out of bounds: data segment does not fit")
              ELSE Ok
         ELSE check_memory_init_bounds(
                  inst, inst.module.memory_initialization.initializers)

\* copy_page with the page index taken as the byte offset
copy_page_unscaled(memory, page_index, data) ==
    [k \in 1..Len(memory) |->
        IF k > page_index /\ k <= page_index + WASM_PAGE_SIZE
        THEN data[k - page_index]
        ELSE memory[k]]

\* slice[start..end].copy_from_slice(data) for one page of one memory
copy_page(memory, page_index, data) ==
    LET start == page_index * WASM_PAGE_SIZE IN
    [k \in 1..Len(memory) |->
        IF k > start /\ k <= start + WASM_PAGE_SIZE
        THEN data[k - start]
        ELSE memory[k]]

RECURSIVE copy_pages_from(_, _, _)
copy_pages_from(memory, pages, p) ==
    IF p > Len(pages) THEN memory
    ELSE copy_pages_from(
             IF pages[p].some THEN copy_page(memory, p - 1, pages[p].data)
                              ELSE memory,
             pages, p + 1)

\* the loop over the paged map: one entry per defined memory
initialize_paged(inst, map) ==
    [inst EXCEPT !.memories =
        [index \in 1..Len(inst.memories) |->
            IF index <= Len(map)
            THEN copy_pages_from(inst.memories[index], map[index], 1)
            ELSE inst.memories[index]]]

\* initialize_instance that applies the data segments or pages first and the
\* element segments after them
initialize_instance_memories_first(inst, m, bulk) ==
    LET c == IF ~bulk THEN check_init_bounds(inst, m) ELSE Ok IN
    IF c # Ok THEN [res |-> c, inst |-> inst]
    ELSE LET d == IF m.memory_initialization.kind = "Paged"
                  THEN LET i2 == initialize_paged(inst, m.memory_initialization.map)
                       IN IF m.memory_initialization.out_of_bounds
                          THEN [res |-> Trap("HeapOutOfBounds"), inst |-> i2]
                          ELSE [res |-> Ok, inst |-> i2]
                  ELSE initialize_memories(inst,
                                           m.memory_initialization.initializers)
         IN IF d.res # Ok THEN d
            ELSE initialize_tables(d.inst, m)

initialize_instance(inst, m, bulk) ==
    LET c == IF ~bulk THEN check_init_bounds(inst, m) ELSE Ok IN
    IF c # Ok THEN [res |-> c, inst |-> inst]
    ELSE LET t == initialize_tables(inst, m) IN
         IF t.res # Ok THEN t
         ELSE IF m.memory_initialization.kind = "Paged"
              THEN LET i2 == initialize_paged(t.inst, m.memory_initialization.map)
                   IN IF m.memory_initialization.out_of_bounds
                      THEN [res |-> Trap("HeapOutOfBounds"), inst |-> i2]
                      ELSE [res |-> Ok, inst |-> i2]
              ELSE initialize_memories(t.inst,
                                       m.memory_initialization.initializers)

\* ------------------------------------------------------------------------
\* Modules and instances handed to initialize
\* ------------------------------------------------------------------------
\* Memory 0 is a 32-bit memory of MemPages pages, memory 1 a 64-bit memory
\* of one page; both are defined by the module.
MemoryPlans ==
    << [memory64 |-> FALSE, minimum |-> MemPages],
       [memory64 |-> TRUE, minimum |-> 1] >>

MemLen(i) == MemoryPlans[i + 1].minimum * WASM_PAGE_SIZE

\* Global 0 is imported (value 1), global 1 is defined (value 2).  A segment
\* of the 32-bit memory names the imported global as its base, a segment of
\* the 64-bit memory the defined one.
DataBases(i) == {NoneIdx, SomeIdx(i)}

DataOffsets(i) ==
    {0, MemLen(i) - 1, IF MemoryPlans[i + 1].memory64 THEN U64_MAX ELSE U32_MAX}

DataBytes(i) == IF i = 0 THEN <<187, 188>> ELSE <<170>>

DataSegments ==
    UNION {
        {[memory_index |-> i, base |-> b, offset |-> o, data |-> DataBytes(i)] :
            b \in DataBases(i), o \in DataOffsets(i)}
        : i \in 0..(Len(MemoryPlans) - 1)}

ElemSegments ==
    {[table_index |-> 0, base |-> b, offset |-> o, elements |-> e] :
        b \in {NoneIdx, SomeIdx(0)},
        o \in {0, U32_MAX},
        e \in {<<0>>, <<1, 0>>}}

\* A page image, and the sparse page lists of the paged form
PageImage(p) == [k \in 1..WASM_PAGE_SIZE |-> 16 * (p + 1) + k]

PageLists(i) ==
    {[p \in 1..MemoryPlans[i + 1].minimum |->
        IF p \in present THEN [some |-> TRUE, data |-> PageImage(p - 1)]
                         ELSE [some |-> FALSE, data |-> <<>>]]
     : present \in SUBSET (1..MemoryPlans[i + 1].minimum)}

MemoryInitializations ==
    {[kind |-> "Segmented", initializers |-> s, map |-> <<>>,
      out_of_bounds |-> FALSE] : s \in SeqsUpTo(DataSegments, MaxDataSegs)}
    \cup
    {[kind |-> "Paged", initializers |-> <<>>, map |-> <<p0, p1>>,
      out_of_bounds |-> oob] :
        p0 \in PageLists(0), p1 \in PageLists(1), oob \in BOOLEAN}

\* the modules with up to n element segments
InitModules(n) ==
    {[num_imported_globals |-> 1,
      memory_plans |-> MemoryPlans,
      table_initializers |-> t,
      memory_initialization |-> mi] :
        t \in SeqsUpTo(ElemSegments, n),
        mi \in MemoryInitializations}

\* The instance right after allocate: zeroed memories, null table elements.
FreshInstance(m) ==
    [module |-> m,
     memories |-> [i \in 1..Len(m.memory_plans) |->
                      Zeros(m.memory_plans[i].minimum * WASM_PAGE_SIZE)],
     tables |-> <<Zeros(TableSize)>>,
     imported_globals |-> <<1>>,
     globals |-> <<2>>]

\* no Instance has been allocated: there are no backing bytes
NoBuffer == [state |-> "none", layout |-> 0, freed_with |-> 0]

\* allocate is not running
AllocIdle ==
    /\ req = [imports |-> [functions |-> <<>>, tables |-> <<>>,
                          memories |-> <<>>, globals |-> <<>>],
              finished_functions |-> <<>>,
              shared_signatures |-> [kind |-> "None", table |-> <<>>, index |-> 0],
              store |-> [some |-> FALSE, limiter |-> FALSE,
                        vminterrupts |-> "none"]]
    /\ alloc_pc = "idle"
    /\ alloc_result = NotCalled
    /\ memories = <<>>
    /\ tables = <<>>
    /\ created = <<>>
    /\ live = {}
    /\ released = <<>>
    /\ extern_strong = 0
    /\ contents = <<>>
    /\ buffer = NoBuffer

InitI ==
    /\ module \in InitModules(MaxElemSegs)
    /\ instance = FreshInstance(module)
    /\ instance0 = instance
    /\ is_bulk_memory = FALSE
    /\ init_result = NotCalled
    /\ AllocIdle
    /\ ExtIdle

\* OnDemandInstanceAllocator::initialize
Initialize(bulk) ==
    /\ init_result = NotCalled
    /\ LET r == initialize_instance(instance, module, bulk) IN
       /\ instance' = r.inst
       /\ init_result' = r.res
    /\ is_bulk_memory' = bulk
    /\ UNCHANGED <<extVars, contents, buffer, module, instance0, allocVars>>

NextI == \E bulk \in BOOLEAN : Initialize(bulk)

SpecInit == InitI /\ [][NextI]_vars

\* ========================================================================
\* allocate
\* ========================================================================
SelfVmctx == "self"
OtherVmctxs == {"other_a", "other_b"}

\* SharedSignatures::lookup; `panic` is the unreachable!() of the None case
shared_signatures_lookup(shared, index) ==
    IF shared.kind = "Table"
    THEN [panic |-> FALSE, id |-> shared.table[index + 1]]
    ELSE IF shared.kind = "Always"
         THEN [panic |-> FALSE, id |-> shared.index]
         ELSE [panic |-> TRUE, id |-> 0]

defined_func_index(m, index) ==
    IF index < m.num_imported_funcs
    THEN NoneIdx
    ELSE SomeIdx(index - m.num_imported_funcs)

\* borrow_limiter / req.store.and_then(|s| (*s).limiter())
store_limiter(r) == r.store.some /\ r.store.limiter

\* the slice of plans taken from index 0, imported prefix included
all_plans(plans, num_imports) == plans

\* &plans.values().as_slice()[num_imports..]
defined_plans(plans, num_imports) == SubSeq(plans, num_imports + 1, Len(plans))

\* The loop of create_memories / create_tables: one creation call per plan
\* of the slice, in order, each handed the limiter; the first failing call
\* ends the loop with InstantiationError::Resource.
RECURSIVE create_from(_, _, _, _, _, _, _)
create_from(kind, plans, i, limiter, outcomes, next_id, acc) ==
    IF i > Len(plans)
    THEN [err |-> Ok, objs |-> acc.objs, calls |-> acc.calls]
    ELSE LET call == [kind |-> kind, plan |-> plans[i], limiter |-> limiter,
                      outcome |-> outcomes[i]]
             obj == [id |-> next_id, kind |-> kind, plan |-> plans[i]]
         IN IF outcomes[i] = "ok"
            THEN create_from(kind, plans, i + 1, limiter, outcomes, next_id + 1,
                             [objs |-> Append(acc.objs, obj),
                              calls |-> Append(acc.calls, call)])
            ELSE [err |-> Resource, objs |-> acc.objs,
                  calls |-> Append(acc.calls, call)]

create_memories(m, limiter, outcomes, next_id) ==
    create_from("memory", defined_plans(m.memory_plans, m.num_imported_memories),
                1, limiter, outcomes, next_id, [objs |-> <<>>, calls |-> <<>>])

create_tables(m, limiter, outcomes, next_id) ==
    create_from("table", defined_plans(m.table_plans, m.num_imported_tables),
                1, limiter, outcomes, next_id, [objs |-> <<>>, calls |-> <<>>])

\* a failure of create_tables that releases the tables only
dropped_tables_only(mems, tabs) == tabs

\* The owned values dropped when create_tables fails inside allocate: the
\* partly built `tables` of create_tables, then allocate's `memories`.
dropped_on_table_failure(mems, tabs) == tabs \o mems

Ids(objs) == {objs[i].id : i \in 1..Len(objs)}

\* Memory::new_dynamic / Table::new_dynamic: a memory of `minimum` zeroed
\* pages, a table of `minimum` null elements
fresh_contents(obj) ==
    IF obj.kind = "memory"
    THEN Zeros(obj.plan.minimum * WASM_PAGE_SIZE)
    ELSE Zeros(obj.plan.minimum)

\* the heap once the objects `objs` have been created
with_created(heap, objs) ==
    [id \in (DOMAIN heap) \cup Ids(objs) |->
        IF id \in DOMAIN heap
        THEN heap[id]
        ELSE fresh_contents(CHOOSE o \in {objs[i] : i \in 1..Len(objs)} : o.id = id)]

\* Instance::alloc_layout: the Instance header and one slot per VMContext
\* entry of the module
alloc_layout(m) ==
    1 + Len(m.types) + Len(m.functions) + Len(m.table_plans)
      + Len(m.memory_plans) + Len(m.globals)
IdSeq(objs) == [i \in 1..Len(objs) |-> objs[i].id]

\* What a creation call may answer: a veto needs a limiter.
Outcomes(limiter) == IF limiter THEN {"ok", "veto", "oom"} ELSE {"ok", "oom"}

\* allocate, `let memories = self.create_memories(...)?`
AllocateCreateMemories ==
    /\ alloc_pc = "start"
    /\ LET limiter == store_limiter(req)
           n == Len(defined_plans(module.memory_plans, module.num_imported_memories))
       IN \E outcomes \in [1..n -> Outcomes(limiter)] :
            LET r == create_memories(module, limiter, outcomes, Len(created) + 1) IN
            /\ created' = created \o r.calls
            /\ contents' = with_created(contents, r.objs)
            /\ IF r.err = Ok
               THEN /\ memories' = r.objs
                    /\ live' = live \cup Ids(r.objs)
                    /\ released' = released
                    /\ alloc_pc' = "tables"
                    /\ alloc_result' = alloc_result
               ELSE /\ memories' = <<>>
                    /\ live' = (live \cup Ids(r.objs)) \ Ids(r.objs)
                    /\ released' = released \o IdSeq(r.objs)
                    /\ alloc_pc' = "failed"
                    /\ alloc_result' = r.err
    /\ UNCHANGED <<extVars, buffer, module, instance, initVars, req, tables, extern_strong>>

\* allocate, `let tables = Self::create_tables(...)?`
AllocateCreateTables ==
    /\ alloc_pc = "tables"
    /\ LET limiter == store_limiter(req)
           n == Len(defined_plans(module.table_plans, module.num_imported_tables))
       IN \E outcomes \in [1..n -> Outcomes(limiter)] :
            LET r == create_tables(module, limiter, outcomes, Len(created) + 1) IN
            /\ created' = created \o r.calls
            /\ contents' = with_created(contents, r.objs)
            /\ IF r.err = Ok
               THEN /\ tables' = r.objs
                    /\ memories' = memories
                    /\ live' = live \cup Ids(r.objs)
                    /\ released' = released
                    /\ alloc_pc' = "instance"
                    /\ alloc_result' = alloc_result
               ELSE /\ tables' = <<>>
                    /\ memories' = <<>>
                    /\ live' = (live \cup Ids(r.objs))
                                  \ Ids(dropped_on_table_failure(memories, r.objs))
                    /\ released' =
                          released \o IdSeq(dropped_on_table_failure(memories, r.objs))
                    /\ alloc_pc' = "failed"
                    /\ alloc_result' = r.err
    /\ UNCHANGED <<extVars, buffer, module, instance, initVars, req, extern_strong>>

\* allocate, the block that builds the Instance and the InstanceHandle: the
\* memories and tables move into the instance, the VMContext is not written.
AllocateInstance ==
    /\ alloc_pc = "instance"
    /\ instance' = [module |-> module,
                    memories |-> memories,
                    tables |-> tables,
                    store |-> FALSE,
                    interrupts |-> "unset",
                    signature_ids |-> <<>>,
                    imported_functions |-> <<>>,
                    imported_tables |-> <<>>,
                    imported_memories |-> <<>>,
                    imported_globals |-> <<>>,
                    anyfuncs |-> <<>>,
                    vmtables |-> <<>>,
                    vmmemories |-> <<>>,
                    globals |-> <<>>]
    /\ memories' = <<>>
    /\ tables' = <<>>
    /\ buffer' = [state |-> "live", layout |-> alloc_layout(module),
                  freed_with |-> 0]
    /\ alloc_pc' = "vmctx_store"
    /\ UNCHANGED <<extVars, contents, module, initVars, req, alloc_result, created, live, released,
                   extern_strong>>

\* the first word of the VMContext left as the allocation found it
installed_interrupts_keep(current, store) == current

\* `*instance.interrupts() = (*store).vminterrupts()` under
\* `if let Some(store) = req.store`: the first word of the VMContext
installed_interrupts(current, store) ==
    IF store.some THEN store.vminterrupts ELSE current

\* initialize_vmcontext, `if let Some(store) = req.store { ... }`
VmctxStore ==
    /\ alloc_pc = "vmctx_store"
    /\ instance' = IF req.store.some
                   THEN [instance EXCEPT
                            !.store = TRUE,
                            !.interrupts =
                                installed_interrupts(instance.interrupts, req.store)]
                   ELSE instance
    /\ alloc_pc' = "vmctx_signatures"
    /\ UNCHANGED <<extVars, contents, buffer, module, initVars, req, alloc_result, memories, tables, created,
                   live, released, extern_strong>>

\* signature_id that looks every type up, function type or not
signature_id_always_lookup(shared, ty) ==
    shared_signatures_lookup(shared, ty.sig)

\* the id written for one module type
signature_id(shared, ty) ==
    IF ty.function
    THEN shared_signatures_lookup(shared, ty.sig)
    ELSE [panic |-> FALSE, id |-> U32_MAX]

\* initialize_vmcontext, "Initialize shared signatures"
VmctxSignatures ==
    /\ alloc_pc = "vmctx_signatures"
    /\ LET ids == [t \in 1..Len(module.types) |->
                      signature_id(req.shared_signatures, module.types[t])]
       IN IF \E t \in 1..Len(ids) : ids[t].panic
          THEN /\ alloc_pc' = "panicked"
               /\ alloc_result' = Panic
               /\ instance' = instance
          ELSE /\ alloc_pc' = "vmctx_imports"
               /\ alloc_result' = alloc_result
               /\ instance' = [instance EXCEPT !.signature_ids =
                                  [t \in 1..Len(ids) |-> ids[t].id]]
    /\ UNCHANGED <<extVars, contents, buffer, module, initVars, req, memories, tables, created, live,
                   released, extern_strong>>

\* the imports step with the function descriptors left for a later step:
\* the anyfunc loop then reads descriptors not yet written
VmctxImports_functions_unwritten ==
    /\ alloc_pc = "vmctx_imports"
    /\ instance' = [instance EXCEPT
                      !.imported_functions =
                          [i \in 1..Len(req.imports.functions) |->
                              [body |-> [owner |-> "unwritten", func |-> 0],
                               vmctx |-> "unwritten"]],
                      !.imported_tables = req.imports.tables,
                      !.imported_memories = req.imports.memories,
                      !.imported_globals = req.imports.globals]
    /\ alloc_pc' = "vmctx_functions"
    /\ UNCHANGED <<extVars, contents, buffer, module, initVars, req,
                   alloc_result, memories, tables, created, live, released,
                   extern_strong>>

\* initialize_vmcontext, "Initialize the built-in functions" and
\* "Initialize the imports": four bulk copies out of req.imports
VmctxImports ==
    /\ alloc_pc = "vmctx_imports"
    /\ instance' = [instance EXCEPT
                      !.imported_functions = req.imports.functions,
                      !.imported_tables = req.imports.tables,
                      !.imported_memories = req.imports.memories,
                      !.imported_globals = req.imports.globals]
    /\ alloc_pc' = "vmctx_functions"
    /\ UNCHANGED <<extVars, contents, buffer, module, initVars, req, alloc_result, memories, tables, created,
                   live, released, extern_strong>>

\* anyfunc_of_import with the instance's own vmctx
anyfunc_of_import_self_vmctx(import) ==
    [func_ptr |-> import.body, vmctx |-> SelfVmctx]

\* the VMCallerCheckedAnyfunc of an imported function
anyfunc_of_import(import) == [func_ptr |-> import.body, vmctx |-> import.vmctx]

\* the VMCallerCheckedAnyfunc written for function `index`
anyfunc_entry(inst, r, index) ==
    LET sig == inst.module.functions[index + 1]
        type_index == shared_signatures_lookup(r.shared_signatures, sig)
        def_index == defined_func_index(inst.module, index)
        fv == IF def_index.some
              THEN [func_ptr |-> r.finished_functions[def_index.idx + 1],
                    vmctx |-> SelfVmctx]
              ELSE anyfunc_of_import(inst.imported_functions[index + 1])
    IN [panic |-> type_index.panic,
        func_ptr |-> fv.func_ptr,
        type_index |-> type_index.id,
        vmctx |-> fv.vmctx]

\* initialize_vmcontext, "Initialize the functions"
VmctxFunctions ==
    /\ alloc_pc = "vmctx_functions"
    /\ LET es == [f \in 1..Len(module.functions) |->
                     anyfunc_entry(instance, req, f - 1)]
       IN IF \E f \in 1..Len(es) : es[f].panic
          THEN /\ alloc_pc' = "panicked"
               /\ alloc_result' = Panic
               /\ instance' = instance
          ELSE /\ alloc_pc' = "vmctx_defined"
               /\ alloc_result' = alloc_result
               /\ instance' = [instance EXCEPT !.anyfuncs =
                                  [f \in 1..Len(es) |->
                                      [func_ptr |-> es[f].func_ptr,
                                       type_index |-> es[f].type_index,
                                       vmctx |-> es[f].vmctx]]]
    /\ UNCHANGED <<extVars, contents, buffer, module, initVars, req, memories, tables, created, live,
                   released, extern_strong>>

\* an allocate that hands the handle out once the descriptors are written,
\* the defined globals still unwritten
VmctxDefined_returns_handle ==
    /\ alloc_pc = "vmctx_defined"
    /\ instance' = [instance EXCEPT
                      !.vmtables = IdSeq(instance.tables),
                      !.vmmemories = IdSeq(instance.memories)]
    /\ alloc_pc' = "done"
    /\ alloc_result' = Ok
    /\ UNCHANGED <<extVars, contents, buffer, module, initVars, req, memories,
                   tables, created, live, released, extern_strong>>

\* initialize_vmcontext, "Initialize the defined tables" and "Initialize the
\* defined memories": the descriptor of each owned object, in index order
VmctxDefined ==
    /\ alloc_pc = "vmctx_defined"
    /\ instance' = [instance EXCEPT
                      !.vmtables =
                          [i \in 1..(Len(module.table_plans) - module.num_imported_tables)
                              |-> instance.tables[i].id],
                      !.vmmemories =
                          [i \in 1..(Len(module.memory_plans) - module.num_imported_memories)
                              |-> instance.memories[i].id]]
    /\ alloc_pc' = "vmctx_globals"
    /\ UNCHANGED <<extVars, contents, buffer, module, initVars, req, alloc_result, memories, tables, created,
                   live, released, extern_strong>>

\* ------------------------------------------------------------------------
\* Defined globals
\* ------------------------------------------------------------------------
\* *(*to).as_X_mut() = x: the low w bits of the storage are overwritten
write_low(bits, w, x) == (bits - (bits % 2^w)) + (x % 2^w)

\* GetGlobal(x) with every global looked up among the imports
global_get_from_imports_only(inst, globals_so_far, x) ==
    inst.imported_globals[1]

\* the `from` of GetGlobal(x): a defined global of this instance or the
\* definition an imported global points at
global_get_from(inst, globals_so_far, x) ==
    LET def_x == defined_global_index(inst.module, x) IN
    IF def_x.some
    THEN globals_so_far[def_x.idx + 1]
    ELSE inst.imported_globals[x + 1]

\* One iteration of initialize_vmcontext_globals: the storage is zeroed
\* (VMGlobalDefinition::new()) and the initializer evaluated.  `clones` is
\* the number of externref clones made (0 or 1).
global_init(inst, globals_so_far, global) ==
    LET zero == 0
        k == global.initializer.kind
        x == global.initializer.arg
        done(v) == [panic |-> FALSE, value |-> v, clones |-> 0]
        fail == [panic |-> TRUE, value |-> zero, clones |-> 0]
    IN CASE k = "I32Const" -> done(write_low(zero, W32, x))
         [] k = "I64Const" -> done(write_low(zero, 2 * W32, x))
         [] k = "F32Const" -> done(write_low(zero, W32, x))
         [] k = "F64Const" -> done(write_low(zero, 2 * W32, x))
         [] k = "V128Const" -> done(write_low(zero, 4 * W32, x))
         [] k = "GetGlobal" ->
              LET from == global_get_from(inst, globals_so_far, x) IN
              IF global.wasm_ty = "ExternRef"
              THEN [panic |-> FALSE,
                    value |-> write_low(zero, 2 * W32, from),
                    clones |-> IF from % 2^(2 * W32) = 0 THEN 0 ELSE 1]
              ELSE done(from)
         [] k = "RefFunc" ->
              IF x < Len(inst.anyfuncs)
              THEN done(write_low(zero, 2 * W32, anyfunc_ptr(x)))
              ELSE fail
         [] k = "RefNullConst" ->
              IF global.wasm_ty \in {"FuncRef", "ExternRef"}
              THEN done(zero)
              ELSE fail
         [] OTHER -> fail

\* the loop of initialize_vmcontext_globals over module.globals past the
\* imported ones, in index order
RECURSIVE initialize_vmcontext_globals_from(_, _, _)
initialize_vmcontext_globals_from(inst, d, acc) ==
    IF acc.panic \/ d >= Len(inst.module.globals) - inst.module.num_imported_globals
    THEN acc
    ELSE LET global == inst.module.globals[inst.module.num_imported_globals + d + 1]
             r == global_init(inst, acc.globals, global)
         IN initialize_vmcontext_globals_from(
                inst, d + 1,
                [panic |-> r.panic,
                 globals |-> IF r.panic THEN acc.globals
                             ELSE Append(acc.globals, r.value),
                 clones |-> acc.clones + r.clones])

initialize_vmcontext_globals(inst) ==
    initialize_vmcontext_globals_from(
        inst, 0, [panic |-> FALSE, globals |-> <<>>, clones |-> 0])

\* initialize_vmcontext, "Initialize the defined globals", and the return of
\* Ok(handle) from allocate
VmctxGlobals ==
    /\ alloc_pc = "vmctx_globals"
    /\ LET r == initialize_vmcontext_globals(instance) IN
       /\ instance' = [instance EXCEPT !.globals = r.globals]
       /\ extern_strong' = extern_strong + r.clones
       /\ IF r.panic
          THEN alloc_pc' = "panicked" /\ alloc_result' = Panic
          ELSE alloc_pc' = "done" /\ alloc_result' = Ok
    /\ UNCHANGED <<extVars, contents, buffer, module, initVars, req, memories, tables, created, live,
                   released>>

\* ------------------------------------------------------------------------
\* Requests handed to allocate
\* ------------------------------------------------------------------------
\* The canonical id the signature registry of the store gives SignatureIndex
\* sig; the table handed to allocate holds these ids.
CanonicalId(sig) == sig + 4
SharedTable == [kind |-> "Table", table |-> <<CanonicalId(0), CanonicalId(1)>>,
                index |-> 0]
SharedAlways(id) == [kind |-> "Always", table |-> <<>>, index |-> id]
SharedNone == [kind |-> "None", table |-> <<>>, index |-> 0]

\* Plan i (counted from 1) asks for i pages / elements, so that an object
\* tells which plan it was made from.
Plans(n) == [i \in 1..n |-> [memory64 |-> FALSE, minimum |-> i]]

ImportedFunction(i, v) ==
    [body |-> [owner |-> v, func |-> i], vmctx |-> v]
FinishedFunction(d) == [owner |-> SelfVmctx, func |-> d]

TypeChoices ==
    {[function |-> TRUE, sig |-> 0], [function |-> TRUE, sig |-> 1],
     [function |-> FALSE, sig |-> 0]}

SharedChoices(types, functions) ==
    {SharedTable}
    \cup (IF Len(functions) = 1
             /\ \A t \in 1..Len(types) :
                    types[t].function => types[t].sig = functions[1]
          THEN {SharedAlways(CanonicalId(functions[1]))} ELSE {})
    \cup (IF functions = <<>> /\ \A t \in 1..Len(types) : ~types[t].function
          THEN {SharedNone} ELSE {})

StoreChoices ==
    {[some |-> FALSE, limiter |-> FALSE, vminterrupts |-> "none"],
     [some |-> TRUE, limiter |-> FALSE, vminterrupts |-> "store_interrupts"],
     [some |-> TRUE, limiter |-> TRUE, vminterrupts |-> "store_interrupts"]}

WasmTypes == {"I32", "I64", "F32", "F64", "V128", "FuncRef", "ExternRef"}

GlobalInit(k, x) == [kind |-> k, arg |-> x]

\* The initializers a defined global may carry.  RefNullConst of a number
\* type and Import are the two cases the code answers with a panic.
GlobalChoices ==
    {[wasm_ty |-> "I32", initializer |-> GlobalInit("I32Const", 3)],
     [wasm_ty |-> "I64", initializer |-> GlobalInit("I64Const", U32_MAX + 2)],
     [wasm_ty |-> "F32", initializer |-> GlobalInit("F32Const", 6)],
     [wasm_ty |-> "F64", initializer |-> GlobalInit("F64Const", U32_MAX + 3)],
     [wasm_ty |-> "V128", initializer |-> GlobalInit("V128Const", U64_MAX + 2)],
     [wasm_ty |-> "FuncRef", initializer |-> GlobalInit("RefNullConst", 0)],
     [wasm_ty |-> "ExternRef", initializer |-> GlobalInit("RefNullConst", 0)],
     [wasm_ty |-> "I32", initializer |-> GlobalInit("RefNullConst", 0)],
     [wasm_ty |-> "I32", initializer |-> GlobalInit("Import", 0)]}
    \cup {[wasm_ty |-> "FuncRef", initializer |-> GlobalInit("RefFunc", f)] :
            f \in 0..1}
    \cup {[wasm_ty |-> ty, initializer |-> GlobalInit("GetGlobal", y)] :
            ty \in WasmTypes, y \in 0..(MaxDefGlobals - 1)}

ImportedGlobal(ty) == [wasm_ty |-> ty, initializer |-> GlobalInit("Import", 0)]

\* A validated module: GetGlobal(y) names a global of lower index and of
\* the type of the global it initializes.
ValidGlobal(gs, g) ==
    g.initializer.kind = "GetGlobal" =>
        /\ g.initializer.arg + 1 <= Len(gs)
        /\ gs[g.initializer.arg + 1].wasm_ty = g.wasm_ty

\* Global 0 is imported; k defined globals follow.
RECURSIVE GlobalListsOfLen(_)
GlobalListsOfLen(k) ==
    IF k = 0
    THEN {<<ImportedGlobal("I32")>>, <<ImportedGlobal("ExternRef")>>}
    ELSE UNION {{Append(gs, g) : g \in {c \in GlobalChoices : ValidGlobal(gs, c)}}
                : gs \in GlobalListsOfLen(k - 1)}

GlobalLists == UNION {GlobalListsOfLen(k) : k \in 0..MaxDefGlobals}

AllocModule(nm, nt, types, functions, nif, globals, nig) ==
    [memory_plans |-> Plans(1 + nm), num_imported_memories |-> 1,
     table_plans |-> Plans(1 + nt), num_imported_tables |-> 1,
     types |-> types,
     functions |-> functions, num_imported_funcs |-> nif,
     globals |-> globals, num_imported_globals |-> nig]

AllocRequest(m, v, shared, store, gvals) ==
    [imports |-> [functions |-> [i \in 1..m.num_imported_funcs |->
                                    ImportedFunction(i - 1, v)],
                  tables |-> <<"imported_table">>,
                  memories |-> <<"imported_memory">>,
                  globals |-> gvals],
     finished_functions |->
        [d \in 1..(Len(m.functions) - m.num_imported_funcs) |->
            FinishedFunction(d - 1)],
     shared_signatures |-> shared,
     store |-> store]

\* Requests that vary the memories, the tables and the store
ResourceRequests ==
    {<<AllocModule(nm, nt, <<>>, <<>>, 0, <<>>, 0), st>> :
        nm \in 0..MaxDefMems, nt \in 0..MaxDefTabs, st \in StoreChoices}

\* Requests that vary the types, the functions and their imports
FunctionModules ==
    UNION {{AllocModule(1, 1, types, functions, nif, <<>>, 0) :
                nif \in 0..Len(functions)}
           : types \in SeqsUpTo(TypeChoices, MaxTypes),
             functions \in SeqsUpTo({0, 1}, MaxFuncs)}

\* Requests that vary the globals: function 0 is imported, function 1 defined
GlobalModules ==
    {AllocModule(1, 1, <<[function |-> TRUE, sig |-> 0]>>, <<0, 0>>, 1, gs, 1) :
        gs \in GlobalLists}

InitA ==
    /\ \/ \E rr \in ResourceRequests :
            /\ module = rr[1]
            /\ req = AllocRequest(rr[1], "other_a", SharedNone, rr[2], <<>>)
            /\ extern_strong = 0
       \/ \E m \in FunctionModules, v \in OtherVmctxs :
            \E shared \in SharedChoices(m.types, m.functions) :
                /\ module = m
                /\ req = AllocRequest(m, v, shared,
                                      [some |-> TRUE, limiter |-> FALSE,
                                       vminterrupts |-> "store_interrupts"], <<>>)
                /\ extern_strong = 0
       \/ \E m \in GlobalModules, val \in {0, 5} :
            /\ module = m
            /\ req = AllocRequest(m, "other_a", SharedTable,
                                  [some |-> TRUE, limiter |-> FALSE,
                                       vminterrupts |-> "store_interrupts"], <<val>>)
            /\ extern_strong =
                  IF m.globals[1].wasm_ty = "ExternRef" /\ val # 0 THEN 1 ELSE 0
    /\ instance = [module |-> module]
    /\ alloc_pc = "start"
    /\ alloc_result = NotCalled
    /\ memories = <<>>
    /\ tables = <<>>
    /\ created = <<>>
    /\ live = {}
    /\ released = <<>>
    /\ instance0 = instance
    /\ is_bulk_memory = FALSE
    /\ init_result = NotCalled
    /\ contents = <<>>
    /\ buffer = NoBuffer
    /\ ExtIdle

NextA ==
    \/ AllocateCreateMemories
    \/ AllocateCreateTables
    \/ AllocateInstance
    \/ VmctxStore
    \/ VmctxSignatures
    \/ VmctxImports
    \/ VmctxFunctions
    \/ VmctxDefined
    \/ VmctxGlobals

SpecAlloc == InitA /\ [][NextA]_vars

\* ========================================================================
\* Properties of initialize (specification SpecInit)
\* ========================================================================
Called == init_result # NotCalled
Segmented == module.memory_initialization.kind = "Segmented"
Paged == module.memory_initialization.kind = "Paged"
ElemInits == module.table_initializers
DataInits == module.memory_initialization.initializers

DoesNotFitMsgs ==
    {"table out of bounds: elements segment does not fit",
     "memory out of bounds: data segment does not fit"}
OverflowMsgs ==
    {"element segment global base overflows",
     "data segment global base overflows"}

\* The value of global g when initialize was called
GlobalValue(g) ==
    IF g < module.num_imported_globals
    THEN instance0.imported_globals[g + 1]
    ELSE instance0.globals[g - module.num_imported_globals + 1]

\* Start, fit and overflow of an initializer, as unbounded integers
ElemStart(j) ==
    ElemInits[j].offset
      + (IF ElemInits[j].base.some
         THEN GlobalValue(ElemInits[j].base.idx) % 2^W32 ELSE 0)
ElemLen(j) == Len(ElemInits[j].elements)
ElemFits(j) ==
    ElemStart(j) + ElemLen(j) <= Len(instance0.tables[ElemInits[j].table_index + 1])
ElemOverflows(j) == ElemStart(j) > U32_MAX
ElemOutOfBounds(j) == ~ElemOverflows(j) /\ ~ElemFits(j)

Mem64(j) == module.memory_plans[DataInits[j].memory_index + 1].memory64
DataStart(j) ==
    DataInits[j].offset
      + (IF DataInits[j].base.some
         THEN GlobalValue(DataInits[j].base.idx)
                % (IF Mem64(j) THEN 2^(2 * W32) ELSE 2^W32)
         ELSE 0)
DataLen(j) == Len(DataInits[j].data)
DataFits(j) ==
    DataStart(j) + DataLen(j) <= Len(instance0.memories[DataInits[j].memory_index + 1])
DataOverflows(j) == DataStart(j) > (IF Mem64(j) THEN U64_MAX ELSE U32_MAX)
DataOutOfBounds(j) == ~DataOverflows(j) /\ ~DataFits(j)

AllElemsFit == \A j \in 1..Len(ElemInits) : ElemFits(j)

SetMax(S) == CHOOSE x \in S : \A y \in S : y <= x

\* The tables after element segments 1..n were written in order
TablesAfter(n) ==
    [t \in 1..Len(instance0.tables) |->
        [k \in 1..Len(instance0.tables[t]) |->
            LET cover == {j \in 1..n :
                            /\ ElemInits[j].table_index + 1 = t
                            /\ ElemStart(j) < k
                            /\ k <= ElemStart(j) + ElemLen(j)}
            IN IF cover = {} THEN instance0.tables[t][k]
               ELSE ElemInits[SetMax(cover)].elements[k - ElemStart(SetMax(cover))] + 1]]

\* The memories after data segments 1..n were written in order
MemoriesAfter(n) ==
    [i \in 1..Len(instance0.memories) |->
        [k \in 1..Len(instance0.memories[i]) |->
            LET cover == {j \in 1..n :
                            /\ DataInits[j].memory_index + 1 = i
                            /\ DataStart(j) < k
                            /\ k <= DataStart(j) + DataLen(j)}
            IN IF cover = {} THEN instance0.memories[i][k]
               ELSE DataInits[SetMax(cover)].data[k - DataStart(SetMax(cover))]]]

\* The memories after every present page image was copied to its page
PagedMemories ==
    LET map == module.memory_initialization.map IN
    [i \in 1..Len(instance0.memories) |->
        [k \in 1..Len(instance0.memories[i]) |->
            LET p == ((k - 1) \div WASM_PAGE_SIZE) + 1 IN
            IF i <= Len(map) /\ p <= Len(map[i]) /\ map[i][p].some
            THEN map[i][p].data[((k - 1) % WASM_PAGE_SIZE) + 1]
            ELSE instance0.memories[i][k]]]

AllApplied ==
    /\ instance.tables = TablesAfter(Len(ElemInits))
    /\ instance.memories =
          IF Paged THEN PagedMemories ELSE MemoriesAfter(Len(DataInits))

\* ---- C1 ----------------------------------------------------------------
AnyDoesNotFit ==
    \/ \E j \in 1..Len(ElemInits) : ~ElemFits(j)
    \/ Paged /\ module.memory_initialization.out_of_bounds
    \/ \E j \in 1..Len(DataInits) : ~DataFits(j)

\* C1 as stated: with is_bulk_memory = false, an initializer whose range
\* does not lie within its table or memory makes initialize return
\* Link("... segment does not fit") with no table element and no memory
\* byte changed, and without one initialize succeeds with every segment
\* applied.
C1_AsStated ==
    (Called /\ ~is_bulk_memory) =>
        IF AnyDoesNotFit
        THEN /\ init_result.tag = "Link"
             /\ init_result.msg \in DoesNotFitMsgs
             /\ instance = instance0
        ELSE init_result = Ok /\ AllApplied

\* C1 amended: with is_bulk_memory = false, if the range of any initializer
\* (offset plus base global plus length) exceeds its table or memory, or the
\* paged out_of_bounds flag is set, initialize returns a Link error ("...
\* segment does not fit", or "... global base overflows" when a base
\* addition overflows) and nothing has changed; otherwise it succeeds with
\* every segment applied.
C1_StrictAllOrNothing ==
    (Called /\ ~is_bulk_memory) =>
        IF AnyDoesNotFit
        THEN /\ init_result.tag = "Link"
             /\ init_result.msg \in DoesNotFitMsgs \cup OverflowMsgs
             /\ init_result.msg = "element segment global base overflows"
                   => \E j \in 1..Len(ElemInits) : ElemOverflows(j)
             /\ init_result.msg = "data segment global base overflows"
                   => \E j \in 1..Len(DataInits) : DataOverflows(j)
             /\ instance = instance0
        ELSE init_result = Ok /\ AllApplied

C1_Witness ==
    /\ Called /\ ~is_bulk_memory /\ Segmented
    /\ Len(ElemInits) >= 1 /\ AllElemsFit
    /\ Len(DataInits) >= 2 /\ DataFits(1) /\ DataOutOfBounds(2)
    /\ init_result.tag = "Link"

\* ---- C2 ----------------------------------------------------------------
\* C2: in bulk mode and segmented form, when data segment k is the first
\* out-of-bounds one (every earlier one fits), initialize returns
\* Trap(HeapOutOfBounds), the memories hold exactly segments 1..k-1 written
\* in order, and segment k and the later ones wrote nothing.
C2_BulkObservablePrefix ==
    (Called /\ is_bulk_memory /\ Segmented /\ AllElemsFit) =>
        \A k \in 1..Len(DataInits) :
            (DataOutOfBounds(k) /\ \A j \in 1..(k - 1) : DataFits(j)) =>
                /\ init_result = Trap("HeapOutOfBounds")
                /\ instance.memories = MemoriesAfter(k - 1)
                /\ instance.tables = TablesAfter(Len(ElemInits))

C2_Witness ==
    /\ Called /\ is_bulk_memory /\ Segmented /\ AllElemsFit
    /\ Len(DataInits) >= 2 /\ DataFits(1) /\ DataOutOfBounds(2)
    /\ instance.memories # instance0.memories
    /\ init_result.tag = "Trap"

\* ---- C3 ----------------------------------------------------------------
\* C3: in segmented form and either mode, when the first initializer that
\* fails is a data segment whose offset plus base global exceeds u32::MAX
\* (u64::MAX for a 64-bit memory), initialize returns a Link error and no
\* memory byte and no table element has changed.
C3_OverflowLeavesNoMutation ==
    (Called /\ Segmented /\ AllElemsFit) =>
        \A k \in 1..Len(DataInits) :
            (DataOverflows(k) /\ \A j \in 1..(k - 1) : DataFits(j)) =>
                /\ init_result.tag = "Link"
                /\ instance = instance0

\* ---- C4 ----------------------------------------------------------------
\* C4: when the first initializer that fails is a data segment whose offset
\* plus base global (read as u32 for a 32-bit memory, as u64 for a 64-bit
\* one) exceeds u32::MAX resp. u64::MAX, initialize returns
\* Link("data segment global base overflows"), in both modes.
C4_OverflowIsLinkError ==
    (Called /\ Segmented /\ AllElemsFit) =>
        \A k \in 1..Len(DataInits) :
            (DataOverflows(k) /\ \A j \in 1..(k - 1) : DataFits(j)) =>
                init_result = Link("data segment global base overflows")

\* ---- C5 ----------------------------------------------------------------
\* C5 as stated: in paged form, whatever is_bulk_memory, every present page
\* is copied to page_index * WASM_PAGE_SIZE and then, when out_of_bounds is
\* set, Trap(HeapOutOfBounds) is returned with the pages in memory.
C5_AsStated ==
    (Called /\ Paged /\ AllElemsFit) =>
        /\ instance.memories = PagedMemories
        /\ module.memory_initialization.out_of_bounds
              => init_result = Trap("HeapOutOfBounds")

\* C5 amended: in paged form, once the element segments have been applied,
\* with is_bulk_memory = true (or with the flag clear) every present page is
\* copied to page_index * WASM_PAGE_SIZE, absent pages leave their bytes
\* unchanged, and after the copies a set flag yields Trap(HeapOutOfBounds)
\* with the pages in memory; with is_bulk_memory = false and the flag set,
\* initialize returns a Link error before anything is copied.
C5_PagedCopyThenTrap ==
    (Called /\ Paged /\ AllElemsFit) =>
        IF is_bulk_memory \/ ~module.memory_initialization.out_of_bounds
        THEN /\ instance.memories = PagedMemories
             /\ instance.tables = TablesAfter(Len(ElemInits))
             /\ init_result = IF module.memory_initialization.out_of_bounds
                              THEN Trap("HeapOutOfBounds") ELSE Ok
        ELSE /\ init_result =
                   Link("memory out of bounds: data segment does not fit")
             /\ instance = instance0

C5_Witness ==
    /\ Called /\ Paged /\ is_bulk_memory
    /\ module.memory_initialization.out_of_bounds
    /\ module.memory_initialization.map[1][MemPages].some
    /\ ~module.memory_initialization.map[1][1].some
    /\ instance.memories # instance0.memories
    /\ init_result = Trap("HeapOutOfBounds")

\* ========================================================================
\* Properties of allocate (specification SpecAlloc)
\* ========================================================================
NumDefinedMemories == Len(module.memory_plans) - module.num_imported_memories
NumDefinedTables == Len(module.table_plans) - module.num_imported_tables
NumDefinedGlobals == Len(module.globals) - module.num_imported_globals

\* The creation calls of a complete allocate: one per defined memory, then
\* one per defined table, defined index k using plan num_imported + k.
ExpectedCalls ==
    [k \in 1..NumDefinedMemories |->
        [kind |-> "memory",
         plan |-> module.memory_plans[module.num_imported_memories + k]]]
    \o
    [k \in 1..NumDefinedTables |->
        [kind |-> "table",
         plan |-> module.table_plans[module.num_imported_tables + k]]]

Occurrences(seq, x) == Cardinality({i \in 1..Len(seq) : seq[i] = x})

\* ---- C6 ----------------------------------------------------------------
\* C6: when a creation call fails, allocate returns an error without an
\* Instance or handle, and every memory and table created earlier in the
\* call has been released exactly once and none is live.
C6_FailureReleasesAll ==
    (alloc_result = Resource) =>
        /\ alloc_pc = "failed"
        /\ instance = [module |-> module]
        /\ memories = <<>> /\ tables = <<>>
        /\ live = {}
        /\ \A i \in 1..Len(created) :
              Occurrences(released, i) = IF created[i].outcome = "ok" THEN 1 ELSE 0
        /\ \A j \in 1..Len(released) : released[j] \in 1..Len(created)

C6_Witness ==
    /\ alloc_result = Resource
    /\ Len(created) >= 3
    /\ created[1].kind = "memory" /\ created[1].outcome = "ok"
    /\ created[Len(created) - 1].kind = "table"
    /\ created[Len(created) - 1].outcome = "ok"
    /\ created[Len(created)].kind = "table"
    /\ Len(released) = Len(created) - 1

\* ---- C7 ----------------------------------------------------------------
\* C7: the creation calls made are a prefix of: one call per defined memory
\* in index order, then one per defined table in index order (defined index
\* k from plan num_imported + k); every call is handed the store's limiter
\* when there is one; a failing call is the last call and yields Resource;
\* a successful allocate made every call and owns exactly these objects.
C7_CreationCalls ==
    /\ Len(created) <= Len(ExpectedCalls)
    /\ \A i \in 1..Len(created) :
          /\ created[i].kind = ExpectedCalls[i].kind
          /\ created[i].plan = ExpectedCalls[i].plan
          /\ created[i].limiter = (req.store.some /\ req.store.limiter)
          /\ created[i].outcome = "veto" => created[i].limiter
          /\ created[i].outcome # "ok" =>
                /\ i = Len(created)
                /\ alloc_result = Resource
    /\ alloc_result = Ok =>
          /\ Len(created) = Len(ExpectedCalls)
          /\ Len(instance.memories) = NumDefinedMemories
          /\ Len(instance.tables) = NumDefinedTables
          /\ \A k \in 1..NumDefinedMemories :
                /\ instance.memories[k].kind = "memory"
                /\ instance.memories[k].id = k
                /\ instance.memories[k].plan =
                      module.memory_plans[module.num_imported_memories + k]
          /\ \A k \in 1..NumDefinedTables :
                /\ instance.tables[k].kind = "table"
                /\ instance.tables[k].id = NumDefinedMemories + k
                /\ instance.tables[k].plan =
                      module.table_plans[module.num_imported_tables + k]

C7_Witness ==
    /\ alloc_result = Resource
    /\ NumDefinedMemories >= 2 /\ NumDefinedTables >= 2
    /\ Len(created) = NumDefinedMemories + 1
    /\ created[Len(created)].kind = "table"
    /\ created[Len(created)].outcome = "veto"

\* ---- C8 ----------------------------------------------------------------
\* C8: after allocate, anyfunc entry i carries the canonical id of the
\* signature declared for function i; a defined function has this instance's
\* finished body and the instance's own vmctx, an imported one the body and
\* vmctx of its import descriptor; so vmctx is self iff i is defined.
C8_AnyfuncConsistency ==
    (alloc_result = Ok) =>
        /\ Len(instance.anyfuncs) = Len(module.functions)
        /\ \A i \in 0..(Len(module.functions) - 1) :
              LET e == instance.anyfuncs[i + 1] IN
              /\ e.type_index = CanonicalId(module.functions[i + 1])
              /\ IF i >= module.num_imported_funcs
                 THEN /\ e.func_ptr =
                            req.finished_functions[i - module.num_imported_funcs + 1]
                      /\ e.vmctx = SelfVmctx
                 ELSE /\ e.func_ptr = req.imports.functions[i + 1].body
                      /\ e.vmctx = req.imports.functions[i + 1].vmctx
              /\ (e.vmctx = SelfVmctx) <=> (i >= module.num_imported_funcs)

C8_Witness ==
    /\ alloc_result = Ok
    /\ Len(module.functions) = 2
    /\ module.num_imported_funcs = 1
    /\ module.functions[1] # module.functions[2]
    /\ instance.anyfuncs[1].vmctx = "other_b"
    /\ instance.anyfuncs[2].vmctx = SelfVmctx

\* ---- C9 ----------------------------------------------------------------
\* C9: after allocate, the signature-id array has one entry per module type
\* in type order; a function type has the id the shared-signature source
\* gives for its signature, every other type the maximum 32-bit value.
C9_SignatureIds ==
    (alloc_result = Ok) =>
        /\ Len(instance.signature_ids) = Len(module.types)
        /\ \A t \in 1..Len(module.types) :
              instance.signature_ids[t] =
                 IF module.types[t].function
                 THEN IF req.shared_signatures.kind = "Table"
                      THEN CanonicalId(module.types[t].sig)
                      ELSE req.shared_signatures.index
                 ELSE 2^W32 - 1

C9_Witness ==
    /\ alloc_result = Ok
    /\ Len(module.types) = 2
    /\ ~module.types[1].function
    /\ module.types[2].function /\ module.types[2].sig = 1
    /\ instance.signature_ids[2] = CanonicalId(1)

\* ---- C10 ---------------------------------------------------------------
\* The value global y holds once allocate is done
FinalGlobal(y) ==
    IF y < module.num_imported_globals
    THEN req.imports.globals[y + 1]
    ELSE instance.globals[y - module.num_imported_globals + 1]

DefinedGlobal(d) == module.globals[module.num_imported_globals + d]

ExternClones ==
    {d \in 1..NumDefinedGlobals :
        /\ DefinedGlobal(d).initializer.kind = "GetGlobal"
        /\ DefinedGlobal(d).wasm_ty = "ExternRef"
        /\ instance.globals[d] # 0}

ImportedExternRefs ==
    {y \in 1..module.num_imported_globals :
        module.globals[y].wasm_ty = "ExternRef" /\ req.imports.globals[y] # 0}

\* C10: after allocate, every defined global holds the value of its
\* initializer: Const(x) is x, GetGlobal(y) the value of global y (one more
\* strong reference per cloned externref), RefFunc(f) the address of anyfunc
\* entry f of this instance, RefNullConst zero; an Import initializer on a
\* defined global makes allocate abort.
C10_GlobalValues ==
    /\ (alloc_result = Ok) =>
          /\ Len(instance.globals) = NumDefinedGlobals
          /\ \A d \in 1..NumDefinedGlobals :
                LET k == DefinedGlobal(d).initializer.kind
                    x == DefinedGlobal(d).initializer.arg
                    v == instance.globals[d]
                IN /\ k \in {"I32Const", "I64Const", "F32Const", "F64Const",
                             "V128Const"} => v = x
                   /\ k = "GetGlobal" => v = FinalGlobal(x)
                   /\ k = "RefFunc" => v = x + 1 /\ x < Len(instance.anyfuncs)
                   /\ k = "RefNullConst" => v = 0
                   /\ k # "Import"
          /\ extern_strong = Cardinality(ImportedExternRefs) + Cardinality(ExternClones)
    /\ (alloc_pc \in {"done", "panicked"}
          /\ \E d \in 1..NumDefinedGlobals :
                DefinedGlobal(d).initializer.kind = "Import")
       => alloc_result = Panic

C10_Witness ==
    /\ alloc_result = Ok
    /\ NumDefinedGlobals = 2
    /\ DefinedGlobal(1).initializer.kind = "I64Const"
    /\ DefinedGlobal(2).initializer = GlobalInit("GetGlobal", 1)
    /\ req.imports.globals[1] = 5
    /\ instance.globals[2] = U32_MAX + 2

\* ========================================================================
\* Cranelift signatures (crates/cranelift/src/lib.rs)
\* ========================================================================
MaxParams == 2
MaxSigFuncs == 3

\* TargetIsa::pointer_type
pointer_type(isa) == IF isa.pointer_bits = 32 THEN "I32" ELSE "I64"

\* wasmtime_environ::reference_type: the reference type of pointer width
reference_type(ty, pointer) == IF pointer = "I32" THEN "R32" ELSE "R64"

\* ir::AbiParam::new and ir::AbiParam::special
AbiParam(vt) == [value_type |-> vt, purpose |-> "Normal"]
AbiParamSpecial(vt, purpose) == [value_type |-> vt, purpose |-> purpose]

\* blank_sig that pushes the callee vmctx only
blank_sig_callee_only(isa, call_conv) ==
    [call_conv |-> call_conv,
     params |-> <<AbiParamSpecial(pointer_type(isa), "VMContext")>>,
     returns |-> <<>>]

\* blank_sig: the callee vmctx, marked VMContext, then the caller vmctx
blank_sig(isa, call_conv) ==
    [call_conv |-> call_conv,
     params |-> <<AbiParamSpecial(pointer_type(isa), "VMContext"),
                  AbiParam(pointer_type(isa))>>,
     returns |-> <<>>]

\* wasmtime_call_conv; `panic` is the unimplemented!() of the last arm
wasmtime_call_conv(isa) ==
    CASE isa.default_calling_convention = "AppleAarch64" ->
            [panic |-> FALSE, cc |-> "WasmtimeAppleAarch64"]
      [] isa.default_calling_convention \in {"SystemV", "Err"} ->
            [panic |-> FALSE, cc |-> "WasmtimeSystemV"]
      [] isa.default_calling_convention = "WindowsFastcall" ->
            [panic |-> FALSE, cc |-> "WasmtimeFastcall"]
      [] OTHER -> [panic |-> TRUE, cc |-> "none"]

\* value_type; `panic` is the unimplemented!() of ExnRef
value_type(isa, ty) ==
    CASE ty = "I32" -> [panic |-> FALSE, vt |-> "I32"]
      [] ty = "I64" -> [panic |-> FALSE, vt |-> "I64"]
      [] ty = "F32" -> [panic |-> FALSE, vt |-> "F32"]
      [] ty = "F64" -> [panic |-> FALSE, vt |-> "F64"]
      [] ty = "V128" -> [panic |-> FALSE, vt |-> "I8X16"]
      [] ty \in {"FuncRef", "ExternRef"} ->
            [panic |-> FALSE, vt |-> reference_type(ty, pointer_type(isa))]
      [] OTHER -> [panic |-> TRUE, vt |-> "none"]

\* push_types: the params then the returns of `wasm`, each through value_type
push_types(isa, sig, wasm) ==
    LET ps == [i \in 1..Len(wasm.params) |-> value_type(isa, wasm.params[i])]
        rs == [i \in 1..Len(wasm.returns) |-> value_type(isa, wasm.returns[i])]
    IN IF \/ \E i \in 1..Len(ps) : ps[i].panic
          \/ \E i \in 1..Len(rs) : rs[i].panic
       THEN [panic |-> TRUE, sig |-> sig]
       ELSE [panic |-> FALSE,
             sig |-> [sig EXCEPT
                        !.params = sig.params \o
                            [i \in 1..Len(ps) |-> AbiParam(ps[i].vt)],
                        !.returns = sig.returns \o
                            [i \in 1..Len(rs) |-> AbiParam(rs[i].vt)]]]

\* indirect_signature with the fast convention of module-internal functions
indirect_signature_fast(isa, wasm) ==
    push_types(isa, blank_sig(isa, "Fast"), wasm)

\* indirect_signature
indirect_signature(isa, wasm) ==
    LET cc == wasmtime_call_conv(isa) IN
    IF cc.panic THEN [panic |-> TRUE, sig |-> blank_sig(isa, "none")]
    ELSE push_types(isa, blank_sig(isa, cc.cc), wasm)

\* the convention test made on the function index, not the defined index
is_fast_by_func_index(m, index) ==
    /\ defined_func_index(m, index).some
    /\ index \notin m.possibly_exported_funcs

\* func_signature, the first arm of the match:
\* `Some(idx) if !module.possibly_exported_funcs.contains(&idx)`
is_fast(m, index) ==
    LET idx == defined_func_index(m, index) IN
    idx.some /\ idx.idx \notin m.possibly_exported_funcs

\* func_signature
func_signature(isa, m, types, index) ==
    LET cc == IF is_fast(m, index)
              THEN [panic |-> FALSE, cc |-> "Fast"]
              ELSE wasmtime_call_conv(isa)
    IN IF cc.panic THEN [panic |-> TRUE, sig |-> blank_sig(isa, "none")]
       ELSE push_types(isa, blank_sig(isa, cc.cc),
                       types.wasm_signatures[m.functions[index + 1] + 1])

\* ------------------------------------------------------------------------
\* Arguments handed to func_signature and indirect_signature
\* ------------------------------------------------------------------------
CallingConventions ==
    {"SystemV", "WindowsFastcall", "AppleAarch64", "WasmBasicCAbi", "Err"}

Isas ==
    [default_calling_convention : CallingConventions, pointer_bits : {32, 64}]

AllWasmTypes == WasmTypes \cup {"ExnRef"}

\* no result, one result of any type, or two results
ReturnLists ==
    {<<>>, <<"I32", "F64">>} \cup {<<ty>> : ty \in AllWasmTypes}

\* every return list with at most one parameter; with more parameters no
\* result or one reference
FuncTypes ==
    {[params |-> ps, returns |-> rs] :
        ps \in SeqsUpTo(AllWasmTypes, 1), rs \in ReturnLists}
    \cup
    {[params |-> ps, returns |-> rs] :
        ps \in SeqsUpTo(AllWasmTypes, MaxParams), rs \in {<<>>, <<"FuncRef">>}}

\* Function i has signature i mod 2; the first nif functions are imported
\* and any set of the defined ones is possibly exported.
SigModules ==
    UNION {{[functions |-> [i \in 1..MaxSigFuncs |-> (i - 1) % 2],
             num_imported_funcs |-> nif,
             possibly_exported_funcs |-> pe] :
                pe \in SUBSET (0..(MaxSigFuncs - nif - 1))}
           : nif \in 0..MaxSigFuncs}

TypeTable(ft) ==
    [wasm_signatures |-> <<ft, [params |-> <<"I32">>, returns |-> <<>>]>>]

SigModuleOf(nif) ==
    [functions |-> [i \in 1..MaxSigFuncs |-> 0],
     num_imported_funcs |-> nif,
     possibly_exported_funcs |-> {}]

SigInputs ==
    {[op |-> "func_signature", isa |-> isa, module |-> m,
      types |-> TypeTable([params |-> <<"I64">>, returns |-> <<"F32">>]),
      index |-> index] :
        isa \in Isas, m \in SigModules, index \in 0..(MaxSigFuncs - 1)}
    \cup
    {[op |-> "func_signature",
      isa |-> [default_calling_convention |-> "SystemV", pointer_bits |-> pb],
      module |-> SigModuleOf(nif), types |-> TypeTable(ft), index |-> 0] :
        pb \in {32, 64}, nif \in 0..1, ft \in FuncTypes}
    \cup
    {[op |-> "indirect_signature", isa |-> isa,
      wasm |-> [params |-> <<"F64">>, returns |-> <<"I32">>]] : isa \in Isas}
    \cup
    {[op |-> "indirect_signature",
      isa |-> [default_calling_convention |-> "SystemV", pointer_bits |-> pb],
      wasm |-> ft] : pb \in {32, 64}, ft \in FuncTypes}

\* nothing of the allocator is running
CoreIdle ==
    /\ module = [memory_plans |-> <<>>]
    /\ instance = [module |-> module]
    /\ instance0 = instance
    /\ is_bulk_memory = FALSE
    /\ init_result = NotCalled
    /\ AllocIdle

InitS ==
    /\ CoreIdle
    /\ LifeIdle
    /\ FiberIdle
    /\ ChkIdle
    /\ IntrIdle
    /\ sig_in \in SigInputs
    /\ sig_out = [state |-> "none"]

SigOut(r) ==
    IF r.panic THEN [state |-> "panicked"]
    ELSE [state |-> "returned", sig |-> r.sig]

FuncSignature ==
    /\ sig_in.op = "func_signature"
    /\ sig_out.state = "none"
    /\ sig_out' = SigOut(func_signature(sig_in.isa, sig_in.module, sig_in.types,
                                       sig_in.index))
    /\ UNCHANGED <<fiberVars, coreVars, lifeVars, chkVars, intrVars, sig_in>>

IndirectSignature ==
    /\ sig_in.op = "indirect_signature"
    /\ sig_out.state = "none"
    /\ sig_out' = SigOut(indirect_signature(sig_in.isa, sig_in.wasm))
    /\ UNCHANGED <<fiberVars, coreVars, lifeVars, chkVars, intrVars, sig_in>>

NextS == FuncSignature \/ IndirectSignature

SpecSig == InitS /\ [][NextS]_vars

\* ------------------------------------------------------------------------
\* Properties of the signatures (specification SpecSig)
\* ------------------------------------------------------------------------
SigReturned == sig_out.state = "returned"
SigIsFunc == sig_in.op = "func_signature"

\* the function is defined in the module
SigDefined == sig_in.index >= sig_in.module.num_imported_funcs

\* the function is in the possibly-exported set
SigPossiblyExported ==
    (sig_in.index - sig_in.module.num_imported_funcs)
        \in sig_in.module.possibly_exported_funcs

\* the default convention of the target, by the table of the claim
DefaultConv ==
    CASE sig_in.isa.default_calling_convention \in {"SystemV", "Err"} ->
            "WasmtimeSystemV"
      [] sig_in.isa.default_calling_convention = "WindowsFastcall" ->
            "WasmtimeFastcall"
      [] sig_in.isa.default_calling_convention = "AppleAarch64" ->
            "WasmtimeAppleAarch64"
      [] OTHER -> "unspecified"

\* C19: func_signature gives a function the Fast convention iff it is defined
\* in the module and not in the possibly-exported set; every other function
\* gets the default convention of the target: WasmtimeSystemV for System V
\* and for a target with no known default, WasmtimeFastcall for Windows
\* fastcall, WasmtimeAppleAarch64 for Apple AArch64.
C19_CallConv ==
    (SigIsFunc /\ SigReturned) =>
        /\ (sig_out.sig.call_conv = "Fast")
              <=> (SigDefined /\ ~SigPossiblyExported)
        /\ ~(SigDefined /\ ~SigPossiblyExported) =>
              sig_out.sig.call_conv = DefaultConv

\* a defined, possibly exported function whose function index is not the
\* index it has in the possibly-exported set
C19_Witness ==
    /\ SigIsFunc /\ SigReturned
    /\ SigDefined /\ SigPossiblyExported
    /\ sig_in.module.num_imported_funcs > 0
    /\ sig_in.index \notin sig_in.module.possibly_exported_funcs
    /\ sig_in.isa.default_calling_convention = "WindowsFastcall"
    /\ sig_out.sig.call_conv = "WasmtimeFastcall"

\* the Wasm signature the call was made for
SigWasm ==
    IF SigIsFunc
    THEN sig_in.types.wasm_signatures[sig_in.module.functions[sig_in.index + 1] + 1]
    ELSE sig_in.wasm

PointerSized(vt) ==
    IF sig_in.isa.pointer_bits = 32 THEN vt \in {"I32"} ELSE vt \in {"I64"}

\* the Cranelift type the claim gives a Wasm type
ClaimedType(ty) ==
    CASE ty = "I32" -> "I32"
      [] ty = "I64" -> "I64"
      [] ty = "F32" -> "F32"
      [] ty = "F64" -> "F64"
      [] ty = "V128" -> "I8X16"
      [] ty \in {"FuncRef", "ExternRef"} ->
            IF sig_in.isa.pointer_bits = 32 THEN "R32" ELSE "R64"
      [] OTHER -> "unspecified"

\* C20: every signature func_signature or indirect_signature produces has
\* as its first two parameters the callee VMContext pointer, marked with the
\* VMContext purpose, and the caller VMContext pointer, both pointer-sized,
\* then the Wasm parameters in declaration order; its returns are the Wasm
\* results in order; each Wasm type maps to i32, i64, f32, f64, a 16-byte
\* vector, or a pointer-sized reference for funcref / externref.
C20_SignatureShape ==
    SigReturned =>
        LET sig == sig_out.sig
            wasm == SigWasm
        IN /\ Len(sig.params) = 2 + Len(wasm.params)
           /\ sig.params[1].purpose = "VMContext"
           /\ PointerSized(sig.params[1].value_type)
           /\ sig.params[2].purpose = "Normal"
           /\ PointerSized(sig.params[2].value_type)
           /\ \A i \in 1..Len(wasm.params) :
                 /\ sig.params[2 + i].value_type = ClaimedType(wasm.params[i])
                 /\ sig.params[2 + i].purpose = "Normal"
           /\ Len(sig.returns) = Len(wasm.returns)
           /\ \A i \in 1..Len(wasm.returns) :
                 /\ sig.returns[i].value_type = ClaimedType(wasm.returns[i])
                 /\ sig.returns[i].purpose = "Normal"

C20_Witness ==
    /\ SigReturned
    /\ ~SigIsFunc
    /\ sig_in.isa.pointer_bits = 32
    /\ sig_in.wasm.params = <<"V128", "ExternRef">>
    /\ sig_in.wasm.returns = <<"FuncRef">>
    /\ Len(sig_out.sig.params) = 4

\* ========================================================================
\* The stack-limit word (crates/cranelift/src/lib.rs, "How does Wasmtime
\* prevent stack overflow?" and "How is Wasmtime interrupted?")
\* ========================================================================
\* A machine word has WordBits bits; N stands for the 32k of the backend.
WordBits == 5
N == 4

\* usize::max_value(): "the stack limit isn't set yet"
WORD_MAX == 2^WordBits - 1

\* a sentinel that is the reserved all-ones word itself
INTERRUPTED_is_max == WORD_MAX

\* usize::max_value() - N: "you got interrupted"
INTERRUPTED == WORD_MAX - N

\* the stack addresses the embedder may hand out: none is in [MAX - N, MAX]
ValidSps == 0..(WORD_MAX - N - 1)

wrapping_sub(a, b) == (a - b + WORD_MAX + 1) % (WORD_MAX + 1)

\* a prologue whose only comparison is made on the post-decrement SP
prologue_check_post_decrement_only(limit, stack_pointer, frame) ==
    wrapping_sub(stack_pointer, frame) < limit

\* The prologue of a compiled function: TRUE when it traps.  The stack
\* pointer is compared against the limit ("if the stack pointer goes below
\* this, trap"); a frame larger than N adds a second branch on the
\* post-decrement stack pointer.
prologue_check(limit, stack_pointer, frame) ==
    \/ stack_pointer < limit
    \/ frame > N /\ wrapping_sub(stack_pointer, frame) < limit

\* a loop header that carries no check
loop_header_check_absent(limit) == FALSE

\* The check at the head of a loop: TRUE when it traps.  "If the counter
\* matches a magical sentinel value ... we interrupt the loop and trap."
loop_header_check(limit) == limit = INTERRUPTED

\* a handler that never patches the trap
handler_label_no_patch(limit) == "stack overflow"

\* The trap handler: "translate a stack overflow into an interrupt trap if
\* we see that an interrupt happened."
handler_label(limit) ==
    IF limit = INTERRUPTED THEN "interrupted" ELSE "stack overflow"

\* the three states the word encodes
is_unset(limit) == limit = WORD_MAX
is_interrupt_requested(limit) == limit = INTERRUPTED
is_real_limit(limit) == ~is_unset(limit) /\ ~is_interrupt_requested(limit)

\* ------------------------------------------------------------------------
\* One stack check on given words (specification SpecChk)
\* ------------------------------------------------------------------------
MaxFrame == 2 * N + 1

InitC ==
    /\ CoreIdle
    /\ LifeIdle
    /\ FiberIdle
    /\ SigIdle
    /\ IntrIdle
    /\ chk_in \in [stack_limit : 0..WORD_MAX, sp : ValidSps, frame : 0..MaxFrame]
    /\ chk_out = [state |-> "none"]

PrologueCheck ==
    /\ chk_out.state = "none"
    /\ chk_out' = [state |-> "checked",
                   trapped |-> prologue_check(chk_in.stack_limit, chk_in.sp,
                                              chk_in.frame)]
    /\ UNCHANGED <<fiberVars, coreVars, lifeVars, sigVars, intrVars, chk_in>>

TrapHandlerInspect ==
    /\ chk_out.state = "checked"
    /\ chk_out.trapped
    /\ chk_out' = [state |-> "reported", trapped |-> TRUE,
                   label |-> handler_label(chk_in.stack_limit)]
    /\ UNCHANGED <<fiberVars, coreVars, lifeVars, sigVars, intrVars, chk_in>>

NextC == PrologueCheck \/ TrapHandlerInspect

SpecChk == InitC /\ [][NextC]_vars

\* C13: with stack_limit equal to the interrupt sentinel MAX - N, the
\* prologue check traps for every valid stack pointer and every frame size,
\* smaller than N (one branch) or larger than N (second branch on the
\* post-decrement stack pointer); no wraparound of the word lets it pass.
C13_SentinelAlwaysTraps ==
    (chk_out.state # "none" /\ chk_in.stack_limit = INTERRUPTED) =>
        chk_out.trapped

\* a frame larger than N and than the stack pointer: sp - frame wraps
C13_Witness ==
    /\ chk_out.state = "checked"
    /\ chk_in.stack_limit = WORD_MAX - N
    /\ chk_in.frame > N
    /\ chk_in.frame > chk_in.sp
    /\ chk_out.trapped

\* C14: every value of the stack_limit word decodes to exactly one of three
\* states.  MAX is "not yet initialized": the stack check traps and the trap
\* is reported as a stack overflow, not an interrupt.  The sentinel is
\* "interrupt requested".  Any other value is a real limit.  No value is
\* both "unset" and "interrupt requested".
C14_ThreeStates ==
    LET limit == chk_in.stack_limit IN
    /\ Cardinality({k \in {"unset", "interrupt", "real"} :
            \/ k = "unset" /\ is_unset(limit)
            \/ k = "interrupt" /\ is_interrupt_requested(limit)
            \/ k = "real" /\ is_real_limit(limit)}) = 1
    /\ ~(is_unset(limit) /\ is_interrupt_requested(limit))
    /\ (limit = WORD_MAX /\ chk_out.state # "none") => chk_out.trapped
    /\ (limit = WORD_MAX /\ chk_out.state = "reported") =>
            chk_out.label = "stack overflow"
    /\ (limit = WORD_MAX - N /\ chk_out.state = "reported") =>
            chk_out.label = "interrupted"
    /\ (is_real_limit(limit) /\ chk_out.state = "reported") =>
            chk_out.label = "stack overflow"

C14_Witness ==
    /\ chk_in.stack_limit = WORD_MAX
    /\ chk_out.state = "reported"
    /\ chk_out.label = "stack overflow"
    /\ chk_in.frame = 0

\* ------------------------------------------------------------------------
\* A thread executing compiled Wasm and the threads that interrupt it
\* (specification SpecIntr)
\* ------------------------------------------------------------------------
NumInstances == 3
MaxWasmStack == 6
MaxDepth == 3
MaxIters == 2

\* Two stores; the last instance belongs to the second one, the others to
\* the first.
StoreHook(i) ==
    IF i < NumInstances
    THEN [some |-> TRUE, limiter |-> FALSE, vminterrupts |-> "interrupts_a"]
    ELSE [some |-> TRUE, limiter |-> FALSE, vminterrupts |-> "interrupts_b"]

\* the first word of a VMContext that initialize_vmcontext has not written
UninitWord == "unset"

InterruptPtrs == {"interrupts_a", "interrupts_b", UninitWord}

\* the stack pointer at which the host calls into Wasm
EntrySps == {WORD_MAX - N - 1, WORD_MAX - N - 3}

\* a small frame and a frame larger than N
FrameSizes == {1, N + 2}

\* `*vmctx -> interrupts -> stack_limit` as code of instance i loads it
loaded_limit(i) == stack_limits[vmctx_interrupts[i]]

\* the stack_limit word of the store instance i was allocated with
store_limit(i) == stack_limits[StoreHook(i).vminterrupts]

InitT ==
    /\ CoreIdle
    /\ LifeIdle
    /\ FiberIdle
    /\ SigIdle
    /\ ChkIdle
    /\ stack_limits = [p \in InterruptPtrs |-> WORD_MAX]
    /\ vmctx_interrupts =
          [i \in 1..NumInstances |-> installed_interrupts(UninitWord, StoreHook(i))]
    /\ sp \in EntrySps
    /\ frames = <<>>
    /\ cur = 0
    /\ thread_pc = "host"
    /\ trap_site = "none"
    /\ trap_cause = 0
    /\ trap_inspected = 0
    /\ trap_label = "none"
    /\ iters = 0
    /\ passed_checks = 0

\* The host calls into instance i: with the word unset, the limit of this
\* activation is written ("we reserve a chunk of stack for wasm code relative
\* from where wasm code was called").
EnterWasm(i) ==
    /\ thread_pc = "host"
    /\ LET p == vmctx_interrupts[i] IN
       stack_limits' = IF stack_limits[p] = WORD_MAX
                       THEN [stack_limits EXCEPT ![p] = sp - MaxWasmStack]
                       ELSE stack_limits
    /\ cur' = i
    /\ thread_pc' = "wasm"
    /\ UNCHANGED <<fiberVars, coreVars, lifeVars, sigVars, chkVars,
                   vmctx_interrupts, sp,
                   frames, trap_site, trap_cause, trap_inspected, trap_label,
                   iters, passed_checks>>

\* a check that passes although the store's word holds the sentinel
CountPassed(i) ==
    IF store_limit(i) = INTERRUPTED /\ passed_checks < MaxIters
    THEN passed_checks + 1
    ELSE passed_checks

\* A function of instance i (of the store of the running instance) is
\* called with a frame of `frame` bytes and runs its prologue.
Prologue(i, frame) ==
    /\ thread_pc = "wasm"
    /\ Len(frames) < MaxDepth
    /\ StoreHook(i) = StoreHook(cur)
    /\ LET limit == loaded_limit(i) IN
       IF prologue_check(limit, sp, frame)
       THEN /\ thread_pc' = "trapped"
            /\ trap_site' = "prologue"
            /\ trap_cause' = limit
            /\ cur' = i
            /\ UNCHANGED <<sp, frames, passed_checks>>
       ELSE /\ sp' = sp - frame
            /\ frames' = Append(frames, [size |-> frame, caller |-> cur])
            /\ cur' = i
            /\ passed_checks' = CountPassed(i)
            /\ UNCHANGED <<thread_pc, trap_site, trap_cause>>
    /\ UNCHANGED <<fiberVars, coreVars, lifeVars, sigVars, chkVars, stack_limits,
                   vmctx_interrupts, trap_inspected, trap_label, iters>>

\* The running function reaches the head of a loop.
LoopHeader ==
    /\ thread_pc = "wasm"
    /\ frames # <<>>
    /\ LET limit == loaded_limit(cur) IN
       IF loop_header_check(limit)
       THEN /\ thread_pc' = "trapped"
            /\ trap_site' = "loop_header"
            /\ trap_cause' = limit
            /\ UNCHANGED <<iters, passed_checks>>
       ELSE /\ iters' = (iters + 1) % MaxIters
            /\ passed_checks' = CountPassed(cur)
            /\ UNCHANGED <<thread_pc, trap_site, trap_cause>>
    /\ UNCHANGED <<fiberVars, coreVars, lifeVars, sigVars, chkVars, stack_limits,
                   vmctx_interrupts, sp, frames, cur, trap_inspected,
                   trap_label>>

\* The running function returns to its caller.
Return ==
    /\ thread_pc = "wasm"
    /\ frames # <<>>
    /\ sp' = sp + frames[Len(frames)].size
    /\ cur' = frames[Len(frames)].caller
    /\ frames' = SubSeq(frames, 1, Len(frames) - 1)
    /\ UNCHANGED <<fiberVars, coreVars, lifeVars, sigVars, chkVars, stack_limits,
                   vmctx_interrupts, thread_pc, trap_site, trap_cause,
                   trap_inspected, trap_label, iters, passed_checks>>

\* Any thread stores the sentinel into the stack_limit of a VMInterrupts.
Interrupt(p) ==
    /\ stack_limits[p] # INTERRUPTED
    /\ stack_limits' = [stack_limits EXCEPT ![p] = INTERRUPTED]
    /\ UNCHANGED <<fiberVars, coreVars, lifeVars, sigVars, chkVars,
                   vmctx_interrupts, sp,
                   frames, cur, thread_pc, trap_site, trap_cause,
                   trap_inspected, trap_label, iters, passed_checks>>

\* The trap handler inspects stack_limit and labels the trap.
TrapHandler ==
    /\ thread_pc = "trapped"
    /\ trap_inspected' = loaded_limit(cur)
    /\ trap_label' = handler_label(loaded_limit(cur))
    /\ thread_pc' = "reported"
    /\ UNCHANGED <<fiberVars, coreVars, lifeVars, sigVars, chkVars, stack_limits,
                   vmctx_interrupts, sp, frames, cur, trap_site, trap_cause,
                   iters, passed_checks>>

\* a prologue or loop-header check of the executing thread
Check == (\E i \in 1..NumInstances, frame \in FrameSizes : Prologue(i, frame))
            \/ LoopHeader

NextT ==
    \/ \E i \in 1..NumInstances : EnterWasm(i)
    \/ \E i \in 1..NumInstances, frame \in FrameSizes : Prologue(i, frame)
    \/ LoopHeader
    \/ Return
    \/ \E p \in {"interrupts_a", "interrupts_b"} : Interrupt(p)
    \/ TrapHandler

SpecIntr == InitT /\ [][NextT]_vars

\* A thread that is running compiled Wasm keeps running it: it reaches its
\* next check.
SpecIntrFair == SpecIntr /\ WF_vars(Check)

\* ------------------------------------------------------------------------
\* Properties of the stack-limit protocol
\* ------------------------------------------------------------------------
Trapped == thread_pc \in {"trapped", "reported"}
Reported == thread_pc = "reported"

\* the sentinel is in the stack_limit of the store whose code is running
SentinelPending == thread_pc = "wasm" /\ store_limit(cur) = INTERRUPTED

\* C11: once the sentinel is stored into stack_limit, the thread running
\* compiled Wasm traps at its next prologue or loop-header check: no check
\* passes while the sentinel is there, and a thread that keeps running (a
\* spinning loop included) does trap.
C11_InterruptIsLive ==
    /\ [](passed_checks = 0)
    /\ (SentinelPending ~> Trapped)

\* a loop that had gone round before the store trapped at its header
C11_Witness ==
    /\ thread_pc = "trapped"
    /\ trap_site = "loop_header"
    /\ trap_cause = INTERRUPTED
    /\ iters = 1

\* C12 as stated: the trap is reported as "interrupted" iff stack_limit
\* equals the sentinel when the handler inspects it; a trap caused by an
\* interrupt store is never reported as a stack overflow and a genuine
\* overflow is never reported as interrupted.
C12_AsStated ==
    Reported =>
        /\ (trap_label = "interrupted") <=> (trap_inspected = INTERRUPTED)
        /\ trap_cause = INTERRUPTED => trap_label # "stack overflow"
        /\ trap_cause # INTERRUPTED => trap_label # "interrupted"

\* C12 as amended: the trap is reported as "interrupted" iff stack_limit
\* equals the sentinel when the handler inspects it; a trap caused by an
\* interrupt store is never reported as a stack overflow; a genuine overflow
\* is reported as a stack overflow unless the sentinel was stored between
\* the check that fired and the inspection.
C12_Disambiguation ==
    Reported =>
        /\ (trap_label = "interrupted") <=> (trap_inspected = INTERRUPTED)
        /\ trap_cause = INTERRUPTED => trap_label = "interrupted"
        /\ (trap_cause # INTERRUPTED /\ trap_inspected = trap_cause) =>
              trap_label = "stack overflow"

\* both reports happen: this one is the genuine overflow of a real limit
C12_Witness ==
    /\ Reported
    /\ trap_site = "prologue"
    /\ is_real_limit(trap_cause)
    /\ trap_inspected = trap_cause
    /\ trap_label = "stack overflow"
    /\ Len(frames) >= 2

\* the variables of the executing thread
threadVars == <<vmctx_interrupts, sp, frames, cur, thread_pc, trap_site,
                trap_cause, trap_inspected, trap_label, iters, passed_checks>>

\* C15: every instance allocated with the same store hook has the store's
\* VMInterrupts pointer as the first word of its VMContext, so once the
\* sentinel is in the store's stack_limit no check of code of any instance
\* of the store passes; a store of the sentinel changes stack_limit and
\* nothing else the executing thread reads.
C15_SharedInterrupts ==
    /\ [](\A i, j \in 1..NumInstances :
            StoreHook(i) = StoreHook(j) =>
                /\ vmctx_interrupts[i] = StoreHook(i).vminterrupts
                /\ vmctx_interrupts[i] = vmctx_interrupts[j])
    /\ [][(thread_pc = "wasm" /\ store_limit(cur) = INTERRUPTED) =>
            /\ Len(frames') <= Len(frames)
            /\ iters' = iters]_vars
    /\ [][(\E p \in InterruptPtrs :
                stack_limits[p] # INTERRUPTED /\ stack_limits'[p] = INTERRUPTED)
            => UNCHANGED threadVars]_vars

\* entered in instance 1, the thread is stopped by the prologue of a
\* function of instance 2
C15_Witness ==
    /\ thread_pc = "trapped"
    /\ trap_site = "prologue"
    /\ trap_cause = INTERRUPTED
    /\ cur = 2
    /\ frames # <<>>
    /\ frames[1].caller = 1

\* ========================================================================
\* The life of instances: allocate, initialize, deallocate, on threads that
\* share the Module and the heap (specification SpecLife)
\* ========================================================================
\* instance.memories[index]: the Memory the Instance owns
owned_memory(inst, index) == inst.memories[index + 1].id

\* instance.tables[index]: the Table the Instance owns
owned_table(inst, index) == inst.tables[index + 1].id

\* handle.instance_mut() as the segment initializer reads it: the owned
\* memories and tables with their present contents, and the globals
handle_view(inst, heap) ==
    [module |-> inst.module,
     memories |-> [i \in 1..Len(inst.memories) |-> heap[owned_memory(inst, i - 1)]],
     tables |-> [i \in 1..Len(inst.tables) |-> heap[owned_table(inst, i - 1)]],
     imported_globals |-> inst.imported_globals,
     globals |-> inst.globals]

\* the heap once initialize has written through the handle
written_back(inst, heap, view) ==
    [id \in DOMAIN heap |->
        IF \E i \in 1..Len(inst.memories) : owned_memory(inst, i - 1) = id
        THEN view.memories[CHOOSE i \in 1..Len(inst.memories) :
                                owned_memory(inst, i - 1) = id]
        ELSE IF \E i \in 1..Len(inst.tables) : owned_table(inst, i - 1) = id
             THEN view.tables[CHOOSE i \in 1..Len(inst.tables) :
                                owned_table(inst, i - 1) = id]
             ELSE heap[id]]

\* an initialize that takes the segments out of the Module as it applies them
borrowed_module_drained(m) ==
    [m EXCEPT !.table_initializers = <<>>,
              !.memory_initialization =
                  [kind |-> "Segmented", initializers |-> <<>>, map |-> <<>>,
                   out_of_bounds |-> FALSE]]

\* `module: &Module`: the Module after a call that borrowed it
borrowed_module(m) == m

\* OnDemandInstanceAllocator::initialize on the handle allocate returned
InitializeHandle(bulk) ==
    /\ alloc_result = Ok
    /\ init_result = NotCalled
    /\ dealloc_pc = "idle"
    /\ LET r == initialize_instance(handle_view(instance, contents), module, bulk) IN
       /\ contents' = written_back(instance, contents, r.inst)
       /\ init_result' = r.res
    /\ is_bulk_memory' = bulk
    /\ module' = borrowed_module(module)
    /\ UNCHANGED <<instance, instance0, allocVars, buffer, extVars>>

\* deallocate, `let layout = handle.instance().alloc_layout();`
DeallocateLayout ==
    /\ alloc_result = Ok
    /\ dealloc_pc = "idle"
    /\ dealloc_layout' = alloc_layout(instance.module)
    /\ dealloc_pc' = "drop"
    /\ UNCHANGED <<coreVars, parked, sigVars, chkVars, intrVars, fiberVars>>

\* a destructor that releases the tables and leaks the memories
dropped_in_place_tables_only(inst) == IdSeq(inst.tables)

\* The owned values the drop glue of Instance releases, in field order:
\* `memories`, then `tables`.
dropped_in_place(inst) == IdSeq(inst.memories) \o IdSeq(inst.tables)

\* deallocate, `ptr::drop_in_place(handle.instance);`
DeallocateDrop ==
    /\ dealloc_pc = "drop"
    /\ LET ids == dropped_in_place(instance) IN
       /\ live' = live \ {ids[i] : i \in 1..Len(ids)}
       /\ released' = released \o ids
    /\ buffer' = [buffer EXCEPT !.state = "dropped"]
    /\ dealloc_pc' = "free"
    /\ UNCHANGED <<module, instance, initVars, req, alloc_pc, alloc_result,
                   memories, tables, created, extern_strong, contents,
                   dealloc_layout, parked, sigVars, chkVars, intrVars, fiberVars>>

\* deallocate, `alloc::dealloc(handle.instance.cast(), layout);`
DeallocateFree ==
    /\ dealloc_pc = "free"
    /\ buffer' = [buffer EXCEPT !.state = "freed", !.freed_with = dealloc_layout]
    /\ dealloc_pc' = "done"
    /\ UNCHANGED <<module, instance, initVars, allocVars, contents,
                   dealloc_layout, parked, sigVars, chkVars, intrVars, fiberVars>>

\* what a thread holds of its own: the request, its position in each
\* operation, the locals, the handle and the results
CurCtx ==
    [instance |-> instance, req |-> req, alloc_pc |-> alloc_pc,
     alloc_result |-> alloc_result, memories |-> memories, tables |-> tables,
     is_bulk_memory |-> is_bulk_memory, init_result |-> init_result,
     instance0 |-> instance0, buffer |-> buffer, dealloc_pc |-> dealloc_pc,
     dealloc_layout |-> dealloc_layout]

\* The scheduler runs another thread: the running thread is parked with
\* what it holds and thread k of the parked ones runs.
Switch(k) ==
    /\ k \in 1..Len(parked)
    /\ parked' = [parked EXCEPT ![k] = CurCtx]
    /\ instance' = parked[k].instance
    /\ req' = parked[k].req
    /\ alloc_pc' = parked[k].alloc_pc
    /\ alloc_result' = parked[k].alloc_result
    /\ memories' = parked[k].memories
    /\ tables' = parked[k].tables
    /\ is_bulk_memory' = parked[k].is_bulk_memory
    /\ init_result' = parked[k].init_result
    /\ instance0' = parked[k].instance0
    /\ buffer' = parked[k].buffer
    /\ dealloc_pc' = parked[k].dealloc_pc
    /\ dealloc_layout' = parked[k].dealloc_layout
    /\ CurCtx # parked[k]
    /\ UNCHANGED <<module, created, live, released, extern_strong, contents,
                   sigVars, chkVars, intrVars, fiberVars>>

\* ------------------------------------------------------------------------
\* Modules and requests of SpecLife
\* ------------------------------------------------------------------------
LifeSegment(i, b, o) ==
    [memory_index |-> i, base |-> b, offset |-> o, data |-> DataBytes(i)]

LifeElems(o) ==
    [table_index |-> 0, base |-> NoneIdx, offset |-> o, elements |-> <<1, 0>>]

LifeMemoryInitializations ==
    {[kind |-> "Segmented", initializers |-> ss, map |-> <<>>,
      out_of_bounds |-> FALSE] :
        ss \in {<<>>,
                <<LifeSegment(0, SomeIdx(0), 0)>>,
                <<LifeSegment(0, NoneIdx, 0), LifeSegment(1, SomeIdx(1), U64_MAX)>>}}
    \cup
    {[kind |-> "Paged", initializers |-> <<>>,
      map |-> <<[p \in 1..MemPages |->
                    IF p = 1 THEN [some |-> TRUE, data |-> PageImage(0)]
                    ELSE [some |-> FALSE, data |-> <<>>]],
                <<[some |-> FALSE, data |-> <<>>]>> >>,
      out_of_bounds |-> TRUE]}

\* Two defined memories (MemoryPlans), one defined table of TableSize
\* elements, an imported and a defined function, an imported and a defined
\* global; nothing else is imported.
LifeModules ==
    {[memory_plans |-> MemoryPlans, num_imported_memories |-> 0,
      table_plans |-> <<[memory64 |-> FALSE, minimum |-> TableSize]>>,
      num_imported_tables |-> 0,
      types |-> <<[function |-> TRUE, sig |-> 0]>>,
      functions |-> <<0, 0>>, num_imported_funcs |-> 1,
      globals |-> <<ImportedGlobal("I32"),
                    [wasm_ty |-> "I32", initializer |-> GlobalInit("I32Const", 2)]>>,
      num_imported_globals |-> 1,
      table_initializers |-> t,
      memory_initialization |-> mi] :
        t \in {<<>>, <<LifeElems(0)>>, <<LifeElems(U32_MAX)>>},
        mi \in LifeMemoryInitializations}

\* the request of thread k (there are two threads): its own imports, the
\* shared Module
LifeRequest(m, k) ==
    [imports |-> [functions |-> <<ImportedFunction(0, "other_a")>>,
                  tables |-> <<>>,
                  memories |-> <<>>,
                  globals |-> <<k % 2>>],
     finished_functions |-> <<FinishedFunction(0)>>,
     shared_signatures |-> SharedTable,
     store |-> [some |-> TRUE, limiter |-> FALSE,
                vminterrupts |-> "store_interrupts"]]

\* a thread about to call allocate
StartCtx(m, k) ==
    [instance |-> [module |-> m], req |-> LifeRequest(m, k), alloc_pc |-> "start",
     alloc_result |-> NotCalled, memories |-> <<>>, tables |-> <<>>,
     is_bulk_memory |-> FALSE, init_result |-> NotCalled,
     instance0 |-> [module |-> m], buffer |-> NoBuffer, dealloc_pc |-> "idle",
     dealloc_layout |-> 0]

InitL ==
    /\ FiberIdle
    /\ module \in LifeModules
    /\ instance = StartCtx(module, 1).instance
    /\ req = StartCtx(module, 1).req
    /\ alloc_pc = "start"
    /\ alloc_result = NotCalled
    /\ memories = <<>>
    /\ tables = <<>>
    /\ is_bulk_memory = FALSE
    /\ init_result = NotCalled
    /\ instance0 = instance
    /\ buffer = NoBuffer
    /\ dealloc_pc = "idle"
    /\ dealloc_layout = 0
    /\ parked = <<StartCtx(module, 2)>>
    /\ created = <<>>
    /\ live = {}
    /\ released = <<>>
    /\ extern_strong = 0
    /\ contents = <<>>
    /\ SigIdle
    /\ ChkIdle
    /\ IntrIdle

NextL ==
    \/ AllocateCreateMemories
    \/ AllocateCreateTables
    \/ AllocateInstance
    \/ VmctxStore
    \/ VmctxSignatures
    \/ VmctxImports
    \/ VmctxFunctions
    \/ VmctxDefined
    \/ VmctxGlobals
    \/ \E bulk \in BOOLEAN : InitializeHandle(bulk)
    \/ DeallocateLayout
    \/ DeallocateDrop
    \/ DeallocateFree
    \/ \E k \in 1..Len(parked) : Switch(k)

SpecLife == InitL /\ [][NextL]_vars

\* ------------------------------------------------------------------------
\* Properties of the life of instances (specification SpecLife)
\* ------------------------------------------------------------------------
\* every thread, the running one and the parked ones
AllCtxs == {CurCtx} \cup {parked[k] : k \in 1..Len(parked)}

HasHandle(c) == c.alloc_result = Ok

OwnedObjs(c) ==
    {c.instance.memories[i] : i \in 1..Len(c.instance.memories)}
        \cup {c.instance.tables[i] : i \in 1..Len(c.instance.tables)}

OwnedIds(c) == {o.id : o \in OwnedObjs(c)}

\* every step of initialize_vmcontext has written its part
VmctxComplete(c) ==
    LET inst == c.instance IN
    /\ inst.store = c.req.store.some
    /\ c.req.store.some => inst.interrupts = c.req.store.vminterrupts
    /\ Len(inst.signature_ids) = Len(module.types)
    /\ inst.imported_functions = c.req.imports.functions
    /\ inst.imported_tables = c.req.imports.tables
    /\ inst.imported_memories = c.req.imports.memories
    /\ inst.imported_globals = c.req.imports.globals
    /\ Len(inst.anyfuncs) = Len(module.functions)
    /\ inst.vmtables = IdSeq(inst.tables)
    /\ inst.vmmemories = IdSeq(inst.memories)
    /\ Len(inst.vmtables) = NumDefinedTables
    /\ Len(inst.vmmemories) = NumDefinedMemories
    /\ Len(inst.globals) = NumDefinedGlobals

\* every owned memory is zeroed and every owned table null
FreshlyCreated(c) == \A o \in OwnedObjs(c) : contents[o.id] = fresh_contents(o)

\* C16: allocate returns a handle only after every step of the VMContext
\* initialization has completed, and then no data or element segment has
\* been applied: the defined memories and tables keep their freshly created
\* contents until initialize is called on the handle.
C16_HandleAfterVmctx ==
    \A c \in AllCtxs :
        /\ HasHandle(c) => (c.alloc_pc = "done" /\ VmctxComplete(c))
        /\ c.init_result # NotCalled => HasHandle(c)
        /\ (HasHandle(c) /\ c.init_result = NotCalled) => FreshlyCreated(c)

\* the handle is back, the module has segments, and the other thread has
\* already applied them to its own instance
C16_Witness ==
    /\ alloc_result = Ok
    /\ init_result = NotCalled
    /\ module.table_initializers # <<>>
    /\ module.memory_initialization.initializers # <<>>
    /\ parked[1].init_result = Ok

\* C17: deallocate reads the layout from the live instance, then runs the
\* destructor of the instance, which releases its memories and tables
\* exactly once, and only then releases the backing bytes with that layout;
\* afterwards no memory, table or buffer of the instance is live and none
\* has been released twice.
C17_Deallocate ==
    /\ \A id \in 1..Len(created) : Occurrences(released, id) <= 1
    /\ \A k \in 1..Len(released) : released[k] \in 1..Len(created)
    /\ \A c \in AllCtxs :
          /\ (HasHandle(c) /\ c.dealloc_pc = "idle") =>
                /\ c.buffer.state = "live"
                /\ OwnedIds(c) \subseteq live
          /\ c.dealloc_pc = "drop" =>
                /\ c.buffer.state = "live"
                /\ c.dealloc_layout = c.buffer.layout
                /\ OwnedIds(c) \subseteq live
          /\ c.dealloc_pc = "free" =>
                /\ c.buffer.state = "dropped"
                /\ c.dealloc_layout = c.buffer.layout
                /\ OwnedIds(c) \cap live = {}
          /\ c.dealloc_pc = "done" =>
                /\ c.buffer.state = "freed"
                /\ c.buffer.freed_with = c.buffer.layout
                /\ OwnedIds(c) \cap live = {}
                /\ \A id \in OwnedIds(c) : Occurrences(released, id) = 1

\* this thread has deallocated its instance while the other one still
\* holds a live one
C17_Witness ==
    /\ dealloc_pc = "done"
    /\ buffer.state = "freed"
    /\ Len(released) = 3
    /\ parked[1].alloc_result = Ok
    /\ parked[1].dealloc_pc = "idle"
    /\ Cardinality(live) = 3

\* the instance of thread c as its own allocate, run alone, leaves it: its
\* own memories and tables freshly created, its own imports, and the defined
\* globals computed from them
AloneAllocated(c) ==
    [module |-> c.instance.module,
     memories |-> [i \in 1..Len(c.instance.memories) |->
                      fresh_contents(c.instance.memories[i])],
     tables |-> [i \in 1..Len(c.instance.tables) |->
                    fresh_contents(c.instance.tables[i])],
     imported_globals |-> c.req.imports.globals,
     globals |-> initialize_vmcontext_globals(
                     [c.instance EXCEPT
                         !.imported_globals = c.req.imports.globals]).globals]

\* ... and as its own initialize, run alone, leaves it
AloneInitialized(c) ==
    initialize_instance(AloneAllocated(c), c.instance.module, c.is_bulk_memory)

\* what thread c can see through its handle equals what its own operations
\* alone produce
SameAsAlone(c) ==
    LET seen == handle_view(c.instance, contents) IN
    /\ OwnedIds(c) \cap UNION {OwnedIds(o) : o \in {x \in AllCtxs \ {c} : HasHandle(x)}} = {}
    /\ IF c.init_result = NotCalled
       THEN seen = AloneAllocated(c)
       ELSE /\ seen.memories = AloneInitialized(c).inst.memories
            /\ seen.tables = AloneInitialized(c).inst.tables
            /\ seen.globals = AloneAllocated(c).globals
            /\ seen.imported_globals = AloneAllocated(c).imported_globals
            /\ c.init_result = AloneInitialized(c).res

\* C18: operations on distinct instances are reentrant: however allocate,
\* initialize and deallocate of two instances of the same shared Module
\* interleave, each instance's defined memories, tables, globals and error
\* outcome equal those its own operations produce alone, and the shared
\* Module is never modified.
C18_Reentrant ==
    /\ [](\A c \in AllCtxs : HasHandle(c) => SameAsAlone(c))
    /\ [](\A c \in AllCtxs : HasHandle(c) => c.instance.module = module)
    /\ [][module' = module]_vars

\* both threads have initialized their instances of the shared Module,
\* created in interleaved order, one with bulk memory and one without, with
\* different outcomes and different contents
C18_Witness ==
    /\ alloc_result = Ok
    /\ parked[1].alloc_result = Ok
    /\ init_result # NotCalled
    /\ parked[1].init_result # NotCalled
    /\ init_result # parked[1].init_result
    /\ is_bulk_memory # parked[1].is_bulk_memory
    /\ Len(instance.memories) > 0
    /\ Len(instance.tables) > 0
    /\ instance.memories[1].id < parked[1].instance.memories[1].id
    /\ parked[1].instance.memories[1].id < instance.tables[1].id
    /\ handle_view(instance, contents).memories
          # handle_view(parked[1].instance, contents).memories
    /\ contents[instance.memories[1].id] # fresh_contents(instance.memories[1])

\* ------------------------------------------------------------------------
\* Indirect calls (specification SpecSig)
\* ------------------------------------------------------------------------
\* the pointer of the function can leave its module: it is imported or in
\* the possibly-exported set
SigCanEscape == ~SigDefined \/ SigPossiblyExported

\* C21: indirect_signature always uses the default convention of the target
\* and never Fast, and for every function that is imported or possibly
\* exported, func_signature of the function equals indirect_signature of its
\* Wasm type (convention, parameters and returns), a panic of the one being
\* a panic of the other.
C21_IndirectMatchesCallee ==
    /\ (~SigIsFunc /\ SigReturned) =>
          /\ sig_out.sig.call_conv = DefaultConv
          /\ sig_out.sig.call_conv # "Fast"
    /\ (SigIsFunc /\ sig_out.state # "none" /\ SigCanEscape) =>
          sig_out = SigOut(indirect_signature(sig_in.isa, SigWasm))

\* func_signature of an imported function with parameters and a result, on
\* a target whose default is not System V
C21_Witness ==
    /\ SigIsFunc /\ SigReturned
    /\ ~SigDefined
    /\ sig_in.isa.default_calling_convention = "AppleAarch64"
    /\ sig_out.sig.call_conv = "WasmtimeAppleAarch64"
    /\ Len(sig_out.sig.params) = 3
    /\ Len(sig_out.sig.returns) = 1

\* ========================================================================
\* Further properties of initialize (specification SpecInit)
\* ========================================================================
\* the data segments that cover byte k (counted from 1) of memory i
Covering(i, k) ==
    {j \in 1..Len(DataInits) :
        /\ DataInits[j].memory_index + 1 = i
        /\ DataStart(j) < k
        /\ k <= DataStart(j) + DataLen(j)}

\* C22: when initialize succeeds in segmented form, every byte of every
\* memory that some data segment covers holds the byte of the last segment
\* in declaration order that covers it, at that segment's start (offset plus
\* base global), and every byte outside all segments is unchanged, which is
\* zero for a freshly allocated memory; with no segment every memory stays
\* all zero.
C22_SegmentsInOrder ==
    (Called /\ Segmented /\ init_result = Ok) =>
        /\ \A i \in 1..Len(instance.memories) :
              /\ Len(instance.memories[i]) = Len(instance0.memories[i])
              /\ \A k \in 1..Len(instance.memories[i]) :
                    IF Covering(i, k) = {}
                    THEN /\ instance.memories[i][k] = instance0.memories[i][k]
                         /\ instance.memories[i][k] = 0
                    ELSE LET last == SetMax(Covering(i, k)) IN
                         instance.memories[i][k] =
                             DataInits[last].data[k - DataStart(last)]
        /\ DataInits = <<>> =>
              \A i \in 1..Len(instance.memories) :
                  instance.memories[i] = Zeros(Len(instance.memories[i]))

\* two segments of memory 0 that overlap in one byte, the second starting
\* at its base global: the shared byte holds the second segment's byte
C22_Witness ==
    /\ Called /\ Segmented /\ init_result = Ok
    /\ Len(DataInits) = 2
    /\ DataInits[1].memory_index = 0 /\ DataInits[2].memory_index = 0
    /\ DataStart(1) = 0 /\ DataStart(2) = 1
    /\ DataInits[2].base.some
    /\ instance.memories[1][2] = DataInits[2].data[1]
    /\ instance.memories[1][2] # DataInits[1].data[2]
    /\ instance.memories[1][4] = 0

\* ========================================================================
\* Fiber stacks, validate and adjust_tunables (allocator.rs, the
\* InstanceAllocator trait and its on-demand implementation)
\* ========================================================================
MaxStackSize == 3
MaxFiberCalls == 3

\* OnDemandInstanceAllocator::new
OnDemandNew(mem_creator, stack_size) ==
    [mem_creator |-> mem_creator, stack_size |-> stack_size]

\* wasmtime_fiber::FiberStack::new(size): a stack of `size` bytes, or the
\* io::Error of the failed mapping
FiberStackNew(size, outcome) ==
    IF outcome = "ok" THEN [err |-> FALSE, stack |-> [size |-> size]]
    ELSE [err |-> TRUE, stack |-> [size |-> 0]]

\* allocate_fiber_stack without the test of stack_size
allocate_fiber_stack_unchecked(self, outcome) ==
    LET r == FiberStackNew(self.stack_size, outcome) IN
    [res |-> IF r.err THEN "Resource" ELSE "Ok",
     requested |-> <<self.stack_size>>,
     stack |-> r.stack]

\* allocate_fiber_stack; `requested` is the sizes FiberStack::new was asked for
allocate_fiber_stack(self, outcome) ==
    IF self.stack_size = 0
    THEN [res |-> "NotSupported", requested |-> <<>>, stack |-> [size |-> 0]]
    ELSE LET r == FiberStackNew(self.stack_size, outcome) IN
         [res |-> IF r.err THEN "Resource" ELSE "Ok",
          requested |-> <<self.stack_size>>,
          stack |-> r.stack]

\* the allocators an embedder constructs
Allocators ==
    {OnDemandDefault}
        \cup {OnDemandNew(mc, ss) : mc \in {"none", "custom"},
                                    ss \in 0..MaxStackSize}

\* the Modules handed to validate, the Tunables handed to adjust_tunables
ValidateModules == {[memory_plans |-> Plans(n)] : n \in 0..1}
TunablesChoices == {[static_memory_bound |-> b] : b \in 0..1}

InitF ==
    /\ CoreIdle
    /\ LifeIdle /\ SigIdle /\ ChkIdle /\ IntrIdle
    /\ allocator \in Allocators
    /\ fiber_stacks = <<>>
    /\ fiber_out = [n |-> 0, op |-> "none"]

AllocateFiberStack(outcome) ==
    /\ fiber_out.n < MaxFiberCalls
    /\ LET r == allocate_fiber_stack(allocator, outcome) IN
       /\ fiber_out' = [n |-> fiber_out.n + 1, op |-> "allocate_fiber_stack",
                        res |-> r.res, requested |-> r.requested,
                        created |-> outcome]
       /\ fiber_stacks' = IF r.res = "Ok"
                          THEN Append(fiber_stacks, r.stack.size)
                          ELSE fiber_stacks
    /\ UNCHANGED <<coreVars, lifeVars, sigVars, chkVars, intrVars, allocator>>

\* deallocate_fiber_stack(&self, _stack): no bookkeeping; the stack stays
\* with its owner
DeallocateFiberStack(k) ==
    /\ fiber_out.n < MaxFiberCalls
    /\ k \in 1..Len(fiber_stacks)
    /\ fiber_out' = [n |-> fiber_out.n + 1, op |-> "deallocate_fiber_stack",
                     stack |-> k]
    /\ UNCHANGED <<coreVars, lifeVars, sigVars, chkVars, intrVars, allocator,
                   fiber_stacks>>

\* InstanceAllocator::validate, the default body: drop(module); Ok(())
Validate(m) ==
    /\ fiber_out.n < MaxFiberCalls
    /\ fiber_out' = [n |-> fiber_out.n + 1, op |-> "validate", module |-> m,
                     res |-> "Ok"]
    /\ UNCHANGED <<coreVars, lifeVars, sigVars, chkVars, intrVars, allocator,
                   fiber_stacks>>

\* InstanceAllocator::adjust_tunables, the default body: drop(tunables)
AdjustTunables(t) ==
    /\ fiber_out.n < MaxFiberCalls
    /\ fiber_out' = [n |-> fiber_out.n + 1, op |-> "adjust_tunables",
                     tunables_in |-> t, tunables_out |-> t]
    /\ UNCHANGED <<coreVars, lifeVars, sigVars, chkVars, intrVars, allocator,
                   fiber_stacks>>

NextF ==
    \/ \E outcome \in {"ok", "io_error"} : AllocateFiberStack(outcome)
    \/ \E k \in 1..MaxFiberCalls : DeallocateFiberStack(k)
    \/ \E m \in ValidateModules : Validate(m)
    \/ \E t \in TunablesChoices : AdjustTunables(t)

SpecFiber == InitF /\ [][NextF]_vars

\* C23: allocate_fiber_stack of the on-demand allocator returns
\* NotSupported iff the configured stack size is zero, so always for the
\* Default allocator, and otherwise asks FiberStack::new for exactly the
\* configured size and reports its failure as Resource;
\* deallocate_fiber_stack, validate and adjust_tunables change no state of
\* the allocator.
C23_FiberStacks ==
    /\ [](fiber_out.op = "allocate_fiber_stack" =>
            /\ (fiber_out.res = "NotSupported") <=> (allocator.stack_size = 0)
            /\ allocator = OnDemandDefault => fiber_out.res = "NotSupported"
            /\ allocator.stack_size # 0 =>
                  /\ fiber_out.requested = <<allocator.stack_size>>
                  /\ (fiber_out.res = "Resource") <=> (fiber_out.created # "ok")
                  /\ (fiber_out.res = "Ok") <=> (fiber_out.created = "ok")
            /\ allocator.stack_size = 0 => fiber_out.requested = <<>>)
    /\ [](\A k \in 1..Len(fiber_stacks) : fiber_stacks[k] = allocator.stack_size)
    /\ [][allocator' = allocator]_vars
    /\ [][fiber_out'.op \in {"deallocate_fiber_stack", "validate", "adjust_tunables"}
            => (allocator' = allocator /\ fiber_stacks' = fiber_stacks)]_vars
    /\ [][fiber_out'.op = "adjust_tunables"
            => fiber_out'.tunables_out = fiber_out'.tunables_in]_vars

\* an allocator of non-zero stack size has created one stack of that size
\* and its third call is the deallocate_fiber_stack of that stack
C23_Witness ==
    /\ allocator.stack_size = MaxStackSize
    /\ fiber_stacks = <<MaxStackSize>>
    /\ fiber_out.op = "deallocate_fiber_stack"
    /\ fiber_out.n = MaxFiberCalls

\* ========================================================================
\* The order of the VMContext initializer (specification SpecAlloc)
\* ========================================================================
\* the import arrays of the VMContext hold the imports of the request
ImportsCopied ==
    /\ instance.imported_functions = req.imports.functions
    /\ instance.imported_tables = req.imports.tables
    /\ instance.imported_memories = req.imports.memories
    /\ instance.imported_globals = req.imports.globals

\* the anyfunc table has one entry per function of the module, and the
\* entry of an imported function is the descriptor copied from the request
AnyfuncsPopulated ==
    /\ Len(instance.anyfuncs) = Len(module.functions)
    /\ \A f \in 1..module.num_imported_funcs :
          /\ instance.anyfuncs[f].func_ptr = req.imports.functions[f].body
          /\ instance.anyfuncs[f].vmctx = req.imports.functions[f].vmctx

\* the defined globals read their sources only after these were written
GlobalsReadWritten ==
    \A d \in 1..NumDefinedGlobals :
        LET k == DefinedGlobal(d).initializer.kind
            x == DefinedGlobal(d).initializer.arg
        IN /\ k = "GetGlobal" =>
                 /\ x < module.num_imported_globals + d - 1
                 /\ instance.globals[d] = FinalGlobal(x)
           /\ k = "RefFunc" =>
                 /\ x + 1 <= Len(instance.anyfuncs)
                 /\ instance.globals[d] = anyfunc_ptr(x)

\* C24: the VMContext initializer runs its steps in the listed order and
\* every step reads only what an earlier step wrote: when the anyfunc loop
\* starts the import descriptors are copied and no anyfunc or global is
\* written; when the defined tables, memories and globals are reached the
\* anyfunc table is fully populated and no global is written; the defined
\* globals are written in ascending index order, so a RefFunc global holds
\* the address of a populated anyfunc entry and GetGlobal(y) of an imported
\* or lower-indexed global holds the final value of y.
C24_VmctxOrder ==
    /\ alloc_pc \in {"vmctx_store", "vmctx_signatures", "vmctx_imports"} =>
          /\ instance.imported_functions = <<>>
          /\ instance.imported_globals = <<>>
          /\ instance.anyfuncs = <<>>
          /\ instance.vmtables = <<>> /\ instance.vmmemories = <<>>
          /\ instance.globals = <<>>
    /\ alloc_pc = "vmctx_functions" =>
          /\ ImportsCopied
          /\ instance.anyfuncs = <<>>
          /\ instance.vmtables = <<>> /\ instance.vmmemories = <<>>
          /\ instance.globals = <<>>
    /\ alloc_pc = "vmctx_defined" =>
          /\ ImportsCopied
          /\ AnyfuncsPopulated
          /\ instance.vmtables = <<>> /\ instance.vmmemories = <<>>
          /\ instance.globals = <<>>
    /\ alloc_pc = "vmctx_globals" =>
          /\ ImportsCopied
          /\ AnyfuncsPopulated
          /\ Len(instance.vmtables) = NumDefinedTables
          /\ Len(instance.vmmemories) = NumDefinedMemories
          /\ instance.globals = <<>>
    /\ alloc_result = Ok =>
          /\ ImportsCopied
          /\ AnyfuncsPopulated
          /\ GlobalsReadWritten

\* a RefFunc global that names the imported function and a second global
\* that copies the first
C24_Witness ==
    /\ alloc_result = Ok
    /\ module.num_imported_funcs = 1
    /\ NumDefinedGlobals = 2
    /\ DefinedGlobal(1).initializer = GlobalInit("RefFunc", 0)
    /\ DefinedGlobal(2).initializer = GlobalInit("GetGlobal", 1)
    /\ instance.anyfuncs[1].vmctx = "other_a"
    /\ instance.globals[2] = anyfunc_ptr(0)

\* ========================================================================
\* Tables before memories (specification SpecInit)
\* ========================================================================
\* the first element segment that does not lie within its table; 0 if all do
FirstElemOutOfBounds ==
    IF \E j \in 1..Len(ElemInits) : ~ElemFits(j) /\ ~ElemOverflows(j)
          /\ \A i \in 1..(j - 1) : ElemFits(i)
    THEN CHOOSE j \in 1..Len(ElemInits) :
            /\ ~ElemFits(j) /\ ~ElemOverflows(j)
            /\ \A i \in 1..(j - 1) : ElemFits(i)
    ELSE 0

\* initialize trapped while applying a data segment or after the pages
DataTrapped == init_result = Trap("HeapOutOfBounds")

\* initialize trapped while applying an element segment
ElemTrapped == init_result = Trap("TableOutOfBounds")

\* C25: initialize applies every element segment before any data segment
\* or page: with is_bulk_memory = true, if an element segment traps then no
\* memory byte has been written (and the tables hold the element segments
\* before the trapping one), and if a data segment, or the out_of_bounds
\* flag of the paged form, traps then every element segment has already
\* been applied to its table.
C25_TablesBeforeMemories ==
    (Called /\ is_bulk_memory) =>
        /\ FirstElemOutOfBounds # 0 =>
              /\ ElemTrapped
              /\ instance.memories = instance0.memories
              /\ instance.tables = TablesAfter(FirstElemOutOfBounds - 1)
        /\ ElemTrapped =>
              /\ FirstElemOutOfBounds # 0
              /\ instance.memories = instance0.memories
        /\ DataTrapped =>
              /\ AllElemsFit
              /\ instance.tables = TablesAfter(Len(ElemInits))

\* an element segment written to the table, then a data segment that traps
C25_Witness ==
    /\ Called /\ is_bulk_memory /\ Segmented
    /\ DataTrapped
    /\ Len(ElemInits) = 1
    /\ instance.tables # instance0.tables
    /\ Len(DataInits) = 1
    /\ instance.memories = instance0.memories

\* ========================================================================
\* The error variant of initialize (specification SpecInit)
\* ========================================================================
\* the first element / data segment whose range does not lie within its
\* table / memory; 0 if every one does
FirstBadElem ==
    IF \E j \in 1..Len(ElemInits) : ~ElemFits(j)
    THEN CHOOSE j \in 1..Len(ElemInits) :
            ~ElemFits(j) /\ \A i \in 1..(j - 1) : ElemFits(i)
    ELSE 0

FirstBadData ==
    IF \E j \in 1..Len(DataInits) : ~DataFits(j)
    THEN CHOOSE j \in 1..Len(DataInits) :
            ~DataFits(j) /\ \A i \in 1..(j - 1) : DataFits(i)
    ELSE 0

PagedFlagSet == Paged /\ module.memory_initialization.out_of_bounds

\* C26: the error variant of initialize is fixed by the mode.  With
\* is_bulk_memory = false a segment out of bounds, or a set out_of_bounds
\* flag of the paged form, yields Link, and Trap is never returned.  With
\* is_bulk_memory = true the first failing segment, when it is out of bounds
\* without a global-base overflow (or the set flag, once the element
\* segments are applied), yields Trap, and Link is returned only when the
\* first failing segment has a global-base overflow.
C26_VariantByMode ==
    /\ (Called /\ ~is_bulk_memory) =>
          /\ init_result.tag \in {"Ok", "Link"}
          /\ (FirstBadElem # 0 \/ FirstBadData # 0 \/ PagedFlagSet)
                => init_result.tag = "Link"
    /\ (Called /\ is_bulk_memory) =>
          /\ init_result.tag \in {"Ok", "Link", "Trap"}
          /\ (FirstBadElem # 0 /\ ~ElemOverflows(FirstBadElem))
                => init_result.tag = "Trap"
          /\ (FirstBadElem = 0 /\ FirstBadData # 0
                /\ ~DataOverflows(FirstBadData))
                => init_result.tag = "Trap"
          /\ (FirstBadElem = 0 /\ PagedFlagSet) => init_result.tag = "Trap"
          /\ init_result.tag = "Link" =>
                /\ init_result.msg \in OverflowMsgs
                /\ IF FirstBadElem # 0
                   THEN ElemOverflows(FirstBadElem)
                   ELSE FirstBadData # 0 /\ DataOverflows(FirstBadData)

\* bulk mode, paged form with the flag set, and an element segment that
\* ends past its table: the trap of the table write
C26_Witness ==
    /\ Called /\ is_bulk_memory
    /\ PagedFlagSet
    /\ FirstBadElem = 1
    /\ ElemOutOfBounds(1)
    /\ init_result = Trap("TableOutOfBounds")

\* ========================================================================
\* Element-segment base resolution (specification SpecElem)
\* ========================================================================
\* Element segments of table 0 with no base, the imported global 0 or the
\* defined global 1 as base, offsets around the table size and u32::MAX,
\* and zero to TableSize elements
ElemOffsets == {0, 1, TableSize, U32_MAX - 1, U32_MAX}

ElemBases == {NoneIdx, SomeIdx(0), SomeIdx(1)}

ElemLists == {<<>>, <<0>>} \cup {[k \in 1..TableSize |-> k % 2]}

ElemSegmentsOfBases ==
    {[table_index |-> 0, base |-> b, offset |-> o, elements |-> e] :
        b \in ElemBases, o \in ElemOffsets, e \in ElemLists}

\* the module has element segments only
ElemModules ==
    {[num_imported_globals |-> 1,
      memory_plans |-> MemoryPlans,
      table_initializers |-> t,
      memory_initialization |->
          [kind |-> "Segmented", initializers |-> <<>>, map |-> <<>>,
           out_of_bounds |-> FALSE]] :
        t \in SeqsUpTo(ElemSegmentsOfBases, MaxElemSegs)}

\* the storage of a global is wider than 32 bits: values whose low 32 bits
\* differ from the whole
BaseGlobalValues == {0, 1, U32_MAX, U32_MAX + 2}

InitE ==
    /\ module \in ElemModules
    /\ \E ig \in BaseGlobalValues, dg \in BaseGlobalValues :
          instance = [FreshInstance(module) EXCEPT
                         !.imported_globals = <<ig>>, !.globals = <<dg>>]
    /\ instance0 = instance
    /\ is_bulk_memory = FALSE
    /\ init_result = NotCalled
    /\ AllocIdle
    /\ ExtIdle

SpecElem == InitE /\ [][NextI]_vars

\* the start the claim gives initializer j: its offset, plus the base
\* global read as u32 when it has one
ClaimedElemStart(j) ==
    IF ElemInits[j].base.some
    THEN ElemInits[j].offset + (GlobalValue(ElemInits[j].base.idx) % 2^W32)
    ELSE ElemInits[j].offset

\* C27: the start index of an element segment is its offset when it has no
\* base global and otherwise the offset plus the base global, defined or
\* imported, read as u32; when that sum exceeds u32::MAX the resolution
\* fails with Link("element segment global base overflows"); in strict mode
\* a segment whose start plus element count exceeds the size of its table
\* yields Link("table out of bounds: elements segment does not fit") with
\* nothing written, and a segment that ends exactly at the table size is
\* accepted and written at its start.
C27_ElemBase ==
    /\ \A j \in 1..Len(ElemInits) :
          get_table_init_start(ElemInits[j], instance0) =
              IF ClaimedElemStart(j) > U32_MAX
              THEN ErrVal(Link("element segment global base overflows"))
              ELSE OkVal(ClaimedElemStart(j))
    /\ Called =>
          \A j \in 1..Len(ElemInits) :
              LET size == Len(instance0.tables[ElemInits[j].table_index + 1])
                  end == ClaimedElemStart(j) + Len(ElemInits[j].elements)
                  earlier_fit ==
                      \A i \in 1..(j - 1) :
                          ClaimedElemStart(i) + Len(ElemInits[i].elements)
                              <= size
              IN earlier_fit =>
                    /\ ClaimedElemStart(j) > U32_MAX =>
                          init_result =
                              Link("element segment global base overflows")
                    /\ (~is_bulk_memory /\ ClaimedElemStart(j) <= U32_MAX
                          /\ end > size) =>
                          /\ init_result =
                                Link("table out of bounds: elements segment does not fit")
                          /\ instance = instance0
                    /\ (end <= size /\ init_result = Ok /\ j = Len(ElemInits)) =>
                          \A k \in 1..Len(ElemInits[j].elements) :
                              instance.tables[ElemInits[j].table_index + 1]
                                             [ClaimedElemStart(j) + k]
                                  = anyfunc_ptr(ElemInits[j].elements[k])
    /\ (Called
          /\ \A j \in 1..Len(ElemInits) :
                ClaimedElemStart(j) + Len(ElemInits[j].elements)
                    <= Len(instance0.tables[ElemInits[j].table_index + 1]))
       => init_result = Ok

\* strict mode, a segment whose base is the defined global, whose value
\* does not fit 32 bits, and which ends exactly at the table size
C27_Witness ==
    /\ Called /\ ~is_bulk_memory
    /\ Len(ElemInits) = 1
    /\ ElemInits[1].base = SomeIdx(1)
    /\ GlobalValue(1) > U32_MAX
    /\ Len(ElemInits[1].elements) >= 1
    /\ ClaimedElemStart(1) + Len(ElemInits[1].elements) = TableSize
    /\ ClaimedElemStart(1) > 0
    /\ init_result = Ok
    /\ instance.tables # instance0.tables

====
